---------------------------- MODULE Spec2Model ----------------------------
(***************************************************************************)
(* Composite (Shen) spectral bases of the Legendre and Laguerre families:  *)
(* transform planning, composite-basis construction, conversion to the     *)
(* orthogonal basis and the forward transform of the boundary-conforming   *)
(* bases (shenfun/legendre/bases.py, shenfun/laguerre/bases.py).           *)
(*                                                                         *)
(* A basis object is a record.  Arrays are records carrying an identity    *)
(* (id), a shape, an element type and the routine that allocated them, so  *)
(* that "the same buffer" and "a buffer of the same shape" are different   *)
(* statements.  A padding factor is kept in halves: ph = 2 is 1.0 and      *)
(* ph = 3 is 1.5.                                                          *)
(***************************************************************************)
EXTENDS Integers, Sequences, FiniteSets, TLC

VARIABLES
    basis,      \* the basis object (with its nested orthogonal basis LT)
    nalloc,     \* number of arrays allocated so far (the next id is nalloc+1)
    nplan,      \* number of plan calls made on the basis after construction
    call,       \* the most recent call made on the basis, with its arguments
    steps,      \* the calls that call made in turn, in order, each with the
                \* id of the array it was handed
    ret         \* what the most recent call returned

vars == <<basis, nalloc, nplan, call, steps, ret>>

(***************************************************************************)
(* Bounds of the model.                                                    *)
(***************************************************************************)
MaxN == 6          \* largest number of modes N of a constructed basis
MaxPlans == 3      \* plan calls made on one basis after its construction

Ns == 5..MaxN
PaddingHalves == {2, 3}
DTypes == {"float", "complex"}

LegendreShen == {"legendre.ShenDirichletBasis", "legendre.ShenNeumannBasis",
                 "legendre.ShenBiharmonicBasis"}
LegendrePlain == {"legendre.Basis"}
LegendreBC == {"legendre.BCBasis", "legendre.BCBiharmonicBasis"}
LaguerreAll == {"laguerre.Basis", "laguerre.ShenDirichletBasis"}
ShenClasses == LegendreShen \cup {"laguerre.ShenDirichletBasis"}
Classes == LegendrePlain \cup LegendreShen \cup LegendreBC \cup LaguerreAll

(***************************************************************************)
(* Python values: a shape argument is an int or a tuple, an axis argument  *)
(* is an int or a one-element tuple.  An int never equals a tuple.         *)
(***************************************************************************)
\* (An int is held as a one-element sequence tagged "int", so that any two
\* Python values can be compared.)
PyInt(n) == [kind |-> "int", val |-> <<n>>]
PyTuple(s) == [kind |-> "tuple", val |-> s]
int_val(v) == v.val[1]

None == [kind |-> "None"]

\* np.ndim(shape): 0 for an int, 1 for a tuple of lengths.
ndim(shape) == IF shape.kind = "int" THEN 0 ELSE 1

\* list(shape) if np.ndim(shape) else [shape]
shape_list(shape) == IF ndim(shape) # 0 THEN shape.val ELSE <<int_val(shape)>>

\* "if isinstance(axis, tuple): assert len(axis) == 1; axis = axis[0]"
\* (axis[-1] in the BC bases: the same element of a one-element tuple).
axis_of(axis) == IF axis.kind = "tuple" THEN axis.val[1] ELSE int_val(axis)

(***************************************************************************)
(* Arrays.  fftw.aligned and np.zeros return a new array whose shape       *)
(* attribute is a tuple, also when the shape argument was an int.          *)
(***************************************************************************)
aligned(id, shape, dtype) ==
    [id |-> id, shape |-> PyTuple(shape_list(shape)), dtype |-> dtype, by |-> "aligned"]

zeros(id, shapelist, dtype) ==
    [id |-> id, shape |-> PyTuple(shapelist), dtype |-> dtype, by |-> "zeros"]

\* Transform(func, xfftn, input_array, tmp_array, output_array)
Transform(U, T, O) ==
    [kind |-> "Transform", input_array |-> U, tmp_array |-> T, output_array |-> O]

\* functools.partial(self.forward, fast_transform=False): not a Transform.
partial == [kind |-> "partial"]

isTransform(f) == f.kind = "Transform"

\* islicedict / slicedict (axis=..., dimensions=...)
slicedict(axis, dimensions) == [axis |-> axis, dimensions |-> dimensions]

\* SpectralBase.dimensions: the dimensionality of the planned arrays.
dimensions(b) == Len(b.forward.input_array.shape.val)

\* self.padding_factor > 1.+1e-8
padding_active(b) == b.ph > 2

\* int(N*padding_factor)
padded_length(N, ph) == (N * ph) \div 2

\* SpectralBase._get_truncarray(shape, dtype): an array of the planned shape
\* whose length along self.axis is the unpadded number of modes N.
get_truncarray(b, id, shape, dtype) ==
    [id |-> id,
     shape |-> PyTuple([shape_list(shape) EXCEPT ![b.axis + 1] = b.N]),
     dtype |-> dtype, by |-> "_get_truncarray"]

(***************************************************************************)
(* The object as SpectralBase.__init__ and the family's __init__ leave it  *)
(* before the constructor's own call of plan.                              *)
(***************************************************************************)
\* The default of the keyword argument quad of the constructors: "LG", and
\* "GC" for BCBiharmonicBasis.
quad_default(cls) == IF cls = "legendre.BCBiharmonicBasis" THEN "GC" ELSE "LG"

SpectralBase_init(cls, N, ph, scaled, bc) ==
    [cls |-> cls, N |-> N, ph |-> ph, scaled |-> scaled, bc |-> bc,
     axis |-> 0,
     forward |-> partial, backward |-> partial,
     backward_uniform |-> partial, scalar_product |-> partial,
     si |-> slicedict(0, 1), sl |-> slicedict(0, 1),
     LT |-> None,
     _factor |-> <<>>, _factor1 |-> <<>>, _factor2 |-> <<>>,
     \* the defaults of the keyword arguments quad and mean
     quad |-> quad_default(cls), mean |-> <<0, 1>>]

\* "Already planned": the guard of plan.
already_planned(b, shape, ax) ==
    /\ isTransform(b.forward)
    /\ b.forward.input_array.shape = shape
    /\ b.axis = ax

(***************************************************************************)
(* LegendreBase.plan                                                       *)
(***************************************************************************)
\* LegendreBase.plan with the scalar product writing into the truncated array.
LegendreBase_wire_sp_trunc(b, U, V, n, shape, dtype) ==
    IF padding_active(b)
    THEN LET trunc_array == get_truncarray(b, n + 1, shape, V.dtype)
             b2 == [b EXCEPT !.forward = Transform(U, V, trunc_array),
                             !.backward = Transform(trunc_array, V, U),
                             !.backward_uniform = Transform(trunc_array, V, U),
                             !.scalar_product = Transform(U, V, trunc_array)]
         IN [b |-> [b2 EXCEPT !.si = slicedict(b2.axis, dimensions(b2)),
                              !.sl = slicedict(b2.axis, dimensions(b2))],
             n |-> n + 1]
    ELSE LET b2 == [b EXCEPT !.forward = Transform(U, V, V),
                             !.backward = Transform(V, V, U),
                             !.backward_uniform = Transform(V, V, U),
                             !.scalar_product = Transform(U, V, V)]
         IN [b |-> [b2 EXCEPT !.si = slicedict(b2.axis, dimensions(b2)),
                              !.sl = slicedict(b2.axis, dimensions(b2))],
             n |-> n]

LegendreBase_wire(b, U, V, n, shape, dtype) ==
    IF padding_active(b)
    THEN LET trunc_array == get_truncarray(b, n + 1, shape, V.dtype)
             b2 == [b EXCEPT !.forward = Transform(U, V, trunc_array),
                             !.backward = Transform(trunc_array, V, U),
                             !.backward_uniform = Transform(trunc_array, V, U),
                             !.scalar_product = Transform(U, V, V)]
         IN [b |-> [b2 EXCEPT !.si = slicedict(b2.axis, dimensions(b2)),
                              !.sl = slicedict(b2.axis, dimensions(b2))],
             n |-> n + 1]
    ELSE LET b2 == [b EXCEPT !.forward = Transform(U, V, V),
                             !.backward = Transform(V, V, U),
                             !.backward_uniform = Transform(V, V, U),
                             !.scalar_product = Transform(U, V, V)]
         IN [b |-> [b2 EXCEPT !.si = slicedict(b2.axis, dimensions(b2)),
                              !.sl = slicedict(b2.axis, dimensions(b2))],
             n |-> n]

LegendreBase_plan(b, n, shape, axis, dtype) ==
    LET ax == axis_of(axis) IN
    IF already_planned(b, shape, ax)
    THEN [b |-> b, n |-> n]
    ELSE LET U == aligned(n + 1, shape, dtype)
             V == aligned(n + 2, shape, dtype)
         IN LegendreBase_wire([b EXCEPT !.axis = ax], U, V, n + 2, shape, dtype)

(***************************************************************************)
(* ShenDirichletBasis.plan, ShenNeumannBasis.plan, ShenBiharmonicBasis.plan*)
(* (Legendre): the arrays are those of the nested orthogonal basis LT.     *)
(***************************************************************************)
\* ShenDirichletBasis.plan with U, V read from self.LT before
\* self.LT.plan(shape, axis, dtype, options) is called.
ShenDirichletBasis_plan_U_V_first_after_LT(b, lt, ax, shape, dtype) ==
    LegendreBase_wire([b EXCEPT !.LT = lt.b, !.axis = ax],
                      b.LT.forward.input_array, b.LT.forward.output_array,
                      lt.n, shape, dtype)

ShenDirichletBasis_plan_U_V_first(b, n, shape, axis, dtype) ==
    IF already_planned(b, shape, axis_of(axis))
    THEN [b |-> b, n |-> n]
    ELSE ShenDirichletBasis_plan_U_V_first_after_LT(
             b, LegendreBase_plan(b.LT, n, shape, axis, dtype),
             axis_of(axis), shape, dtype)

\* The part of plan after self.LT.plan(shape, axis, dtype, options), whose
\* result (the planned LT and the number of arrays allocated) is lt.
ShenDirichletBasis_plan_after_LT(b, lt, ax, shape, dtype) ==
    LegendreBase_wire([b EXCEPT !.LT = lt.b, !.axis = ax],
                      lt.b.forward.input_array, lt.b.forward.output_array,
                      lt.n, shape, dtype)

ShenDirichletBasis_plan(b, n, shape, axis, dtype) ==
    IF already_planned(b, shape, axis_of(axis))
    THEN [b |-> b, n |-> n]
    ELSE ShenDirichletBasis_plan_after_LT(
             b, LegendreBase_plan(b.LT, n, shape, axis, dtype),
             axis_of(axis), shape, dtype)

ShenNeumannBasis_plan(b, n, shape, axis, dtype) ==
    ShenDirichletBasis_plan(b, n, shape, axis, dtype)

ShenBiharmonicBasis_plan(b, n, shape, axis, dtype) ==
    ShenDirichletBasis_plan(b, n, shape, axis, dtype)

(***************************************************************************)
(* LaguerreBase.plan and the Laguerre ShenDirichletBasis.plan: no branch   *)
(* on the padding factor.                                                  *)
(***************************************************************************)
LaguerreBase_wire(b, U, V) ==
    LET b2 == [b EXCEPT !.forward = Transform(U, V, V),
                        !.backward = Transform(V, V, U),
                        !.scalar_product = Transform(U, V, V)]
    IN [b2 EXCEPT !.si = slicedict(b2.axis, dimensions(b2)),
                  !.sl = slicedict(b2.axis, dimensions(b2))]

LaguerreBase_plan(b, n, shape, axis, dtype) ==
    LET ax == axis_of(axis) IN
    IF already_planned(b, shape, ax)
    THEN [b |-> b, n |-> n]
    ELSE LET U == aligned(n + 1, shape, dtype)
             V == aligned(n + 2, shape, dtype)
         IN [b |-> LaguerreBase_wire([b EXCEPT !.axis = ax], U, V), n |-> n + 2]

LaguerreShenDirichletBasis_plan_after_LT(b, lt, ax) ==
    [b |-> LaguerreBase_wire([b EXCEPT !.LT = lt.b, !.axis = ax],
                             lt.b.forward.input_array, lt.b.forward.output_array),
     n |-> lt.n]

LaguerreShenDirichletBasis_plan(b, n, shape, axis, dtype) ==
    IF already_planned(b, shape, axis_of(axis))
    THEN [b |-> b, n |-> n]
    ELSE LaguerreShenDirichletBasis_plan_after_LT(
             b, LaguerreBase_plan(b.LT, n, shape, axis, dtype), axis_of(axis))

(***************************************************************************)
(* BCBasis.plan and BCBiharmonicBasis.plan: no "already planned" guard,    *)
(* self.axis, self.si and self.sl are not assigned.                        *)
(***************************************************************************)
BC_plan(b, n, shape, axis, dtype, K) ==
    LET ax == axis_of(axis)
        sh == shape_list(shape)
        U == zeros(n + 1, sh, dtype)
        V == zeros(n + 2, [sh EXCEPT ![ax + 1] = K], dtype)
    IN [b |-> [b EXCEPT !.forward = Transform(U, V, V),
                        !.backward = Transform(V, V, U),
                        !.scalar_product = Transform(U, V, V)],
        n |-> n + 2]

BCBasis_plan(b, n, shape, axis, dtype) == BC_plan(b, n, shape, axis, dtype, 2)

BCBiharmonicBasis_plan(b, n, shape, axis, dtype) == BC_plan(b, n, shape, axis, dtype, 4)

\* "assert shape[axis] == self.shape(False)" of the BC bases.
BC_plan_accepts(b, shape, axis) ==
    /\ axis_of(axis) + 1 <= Len(shape_list(shape))
    /\ shape_list(shape)[axis_of(axis) + 1] = b.N

\* Method dispatch on the class of the object.
plan(b, n, shape, axis, dtype) ==
    CASE b.cls = "legendre.Basis" -> LegendreBase_plan(b, n, shape, axis, dtype)
      [] b.cls = "legendre.ShenDirichletBasis" -> ShenDirichletBasis_plan(b, n, shape, axis, dtype)
      [] b.cls = "legendre.ShenNeumannBasis" -> ShenNeumannBasis_plan(b, n, shape, axis, dtype)
      [] b.cls = "legendre.ShenBiharmonicBasis" -> ShenBiharmonicBasis_plan(b, n, shape, axis, dtype)
      [] b.cls = "legendre.BCBasis" -> BCBasis_plan(b, n, shape, axis, dtype)
      [] b.cls = "legendre.BCBiharmonicBasis" -> BCBiharmonicBasis_plan(b, n, shape, axis, dtype)
      [] b.cls = "laguerre.Basis" -> LaguerreBase_plan(b, n, shape, axis, dtype)
      [] b.cls = "laguerre.ShenDirichletBasis" -> LaguerreShenDirichletBasis_plan(b, n, shape, axis, dtype)

(***************************************************************************)
(* Constructors.  Each ends with self.plan(int(N*padding_factor), 0,       *)
(* np.float, {}); a Shen basis first builds LT = Basis(N, quad), which is  *)
(* planned for N points without padding.                                   *)
(***************************************************************************)
Basis_init(cls, N, ph, n) ==
    plan(SpectralBase_init(cls, N, ph, FALSE, <<>>), n,
         PyInt(padded_length(N, ph)), PyInt(0), "float")

\* The constructor of a Shen basis after self.LT = Basis(N, quad), whose
\* result is lt.
\* self._factor = np.ones(1) (Dirichlet); np.zeros(0) (Neumann, biharmonic);
\* the Laguerre constructor takes bc and does not keep it.
Shen_init_after_LT(cls, N, ph, scaled, bc, lt) ==
    plan([SpectralBase_init(cls, N, ph, scaled,
                            IF cls \in LegendreShen THEN bc ELSE <<>>) EXCEPT
             !.LT = lt.b,
             !._factor = IF cls = "legendre.ShenDirichletBasis"
                         THEN << (0 :> <<1, 1>>) >> ELSE <<>>],
         lt.n, PyInt(padded_length(N, ph)), PyInt(0), "float")

Shen_init(cls, N, ph, scaled, bc, n) ==
    Shen_init_after_LT(cls, N, ph, scaled, bc,
        Basis_init(IF cls \in LegendreShen THEN "legendre.Basis" ELSE "laguerre.Basis",
                   N, 2, n))

BC_init(cls, N, scaled, n) ==
    plan(SpectralBase_init(cls, N, 2, scaled, <<>>), n, PyInt(N), PyInt(0), "float")

construct(cls, N, ph, scaled, bc) ==
    IF cls \in ShenClasses THEN Shen_init(cls, N, ph, scaled, bc, 0)
    ELSE IF cls \in LegendreBC THEN BC_init(cls, N, scaled, 0)
    ELSE Basis_init(cls, N, ph, 0)

\* The constructor called with the keyword arguments quad and mean as well
\* (mean is a parameter of ShenNeumannBasis only); the n arrays allocated
\* before it keep their identities.  LT = Basis(N, quad) has the same rule.
with_keywords(c, cls, quad, mean) ==
    [b |-> [c.b EXCEPT !.quad = quad,
                       !.mean = IF cls = "legendre.ShenNeumannBasis" THEN mean ELSE @,
                       !.LT = IF cls \in ShenClasses THEN [@ EXCEPT !.quad = quad]
                              ELSE @],
     n |-> c.n]

init(cls, N, quad, ph, scaled, bc, mean, n) ==
    with_keywords(IF cls \in ShenClasses THEN Shen_init(cls, N, ph, scaled, bc, n)
                  ELSE IF cls \in LegendreBC THEN BC_init(cls, N, scaled, n)
                  ELSE Basis_init(cls, N, ph, n),
                  cls, quad, mean)

\* The boundary values a class is constructed with (homogeneous).
bc_default(cls) ==
    IF cls = "legendre.ShenBiharmonicBasis" THEN <<0, 0, 0, 0>>
    ELSE IF cls \in {"legendre.ShenDirichletBasis", "laguerre.ShenDirichletBasis"}
    THEN <<0, 0>> ELSE <<>>

ctor_call(N, ph) ==
    [op |-> "plan", shape |-> PyInt(padded_length(N, ph)), axis |-> PyInt(0),
     dtype |-> "float"]

(***************************************************************************)
(* The planning state machine: a basis of any class is constructed, then   *)
(* plan is called on it with shapes and axes its assertions accept.        *)
(***************************************************************************)
PlanShapes(b) ==
    LET M == padded_length(b.N, b.ph) IN
    {<<PyInt(M), 0>>, <<PyTuple(<<M>>), 0>>, <<PyTuple(<<M, 2>>), 0>>, <<PyTuple(<<2, M>>), 1>>}

AxisForms(a) == {PyInt(a), PyTuple(<<a>>)}

\* The object a constructor call c leaves, and the number of its arrays.
Constructed(c) ==
    /\ basis = c.b
    /\ nalloc = c.n

InitPlan ==
    \E cls \in Classes, N \in Ns, ph \in PaddingHalves :
        /\ cls \in LegendreBC => ph = 2
        /\ Constructed(construct(cls, N, ph, FALSE, bc_default(cls)))
        /\ nplan = 0
        /\ call = ctor_call(N, ph)
        /\ steps = <<>>
        /\ ret = None

Plan ==
    /\ nplan < MaxPlans
    /\ \E sa \in PlanShapes(basis), dtype \in DTypes :
          \E axis \in AxisForms(sa[2]) :
              LET r == plan(basis, nalloc, sa[1], axis, dtype) IN
                 /\ basis.cls \in LegendreBC => BC_plan_accepts(basis, sa[1], axis)
                 /\ basis' = r.b
                 /\ nalloc' = r.n
                 /\ nplan' = nplan + 1
                 /\ call' = [op |-> "plan", shape |-> sa[1], axis |-> axis,
                             dtype |-> dtype]
                 /\ steps' = <<>>
                 /\ ret' = None

NextPlan == Plan

SpecPlan == InitPlan /\ [][NextPlan]_vars

(***************************************************************************)
(* Planning: the statements checked under SpecPlan.                        *)
(***************************************************************************)
TransformArrays(t) ==
    IF isTransform(t) THEN {t.input_array, t.tmp_array, t.output_array} ELSE {}

BasisArrays(b) ==
    TransformArrays(b.forward) \cup TransformArrays(b.backward)
    \cup TransformArrays(b.backward_uniform) \cup TransformArrays(b.scalar_product)

TruncArrays(b) == {a \in BasisArrays(b) : a.by = "_get_truncarray"}

Ids(S) == {a.id : a \in S}

\* C1: a plan call with the same (shape, axis) arguments as the plan call
\* before it changes nothing of the basis: transforms, buffers (by
\* identity), axis, si and sl.
C1_SecondPlanIsNoOp ==
    [][(/\ call.op = "plan"
        /\ call'.op = "plan"
        /\ nplan' = nplan + 1
        /\ call'.shape = call.shape
        /\ call'.axis = call.axis) => basis' = basis]_vars

\* C2: after every plan call the basis is planned for the shape and axis of
\* that call: forward's input buffer has the requested shape, the recorded
\* axis is the requested one and si/sl are those of that axis.
C2_PlannedForLastCall ==
    call.op = "plan" =>
        /\ basis.forward.input_array.shape = PyTuple(shape_list(call.shape))
        /\ basis.axis = axis_of(call.axis)
        /\ basis.si = slicedict(axis_of(call.axis), Len(shape_list(call.shape)))
        /\ basis.sl = slicedict(axis_of(call.axis), Len(shape_list(call.shape)))

\* C3: in every family that takes a padding factor, a basis planned with
\* padding_factor > 1 has a truncated buffer, distinct from the padded
\* input/output buffers, as backward's input; with padding_factor = 1 it
\* has no truncated buffer and backward reads the buffer forward writes.
C3_TruncBufferIffPadded ==
    (basis.cls \notin LegendreBC /\ call.op = "plan") =>
        IF padding_active(basis)
        THEN /\ basis.backward.input_array.by = "_get_truncarray"
             /\ basis.backward.input_array.id
                    \notin {basis.forward.input_array.id, basis.forward.tmp_array.id}
             /\ basis.backward.input_array.shape.val[basis.axis + 1] = basis.N
        ELSE /\ TruncArrays(basis) = {}
             /\ basis.backward.input_array = basis.forward.output_array

C18_BuffersHaveRequestedDtype ==
    call.op = "plan" =>
        \A a \in TransformArrays(basis.forward) \cup TransformArrays(basis.backward) :
            a.dtype = call.dtype

(***************************************************************************)
(* Numbers.  Array elements are exact: a rational is a pair <<n, d>> in    *)
(* lowest terms with d > 0, and a number is a rational combination of the  *)
(* units 1 (unit 0), pi (unit 3), 1/sqrt(r) for the radicands r = 4k+6     *)
(* (unit r) and exp(-x/2) for the positive integer points x (unit -x).     *)
(* For the mode                                                            *)
(* counts (k <= 10) and points used here these units are linearly          *)
(* independent over the rationals, so two numbers are equal iff their      *)
(* components are.                                                         *)
(***************************************************************************)
RECURSIVE GCD(_, _)
GCD(a, b) == IF b = 0 THEN a ELSE GCD(b, a % b)

Abs(n) == IF n < 0 THEN -n ELSE n

Q(n, d) ==
    LET g == GCD(Abs(n), Abs(d))
        s == IF d < 0 THEN -1 ELSE 1
    IN <<(s * n) \div g, (s * d) \div g>>

\* The common factors are divided out before the products are formed, which
\* keeps the intermediate integers small.
QAddOver(a, b, g) ==
    Q(a[1] * (b[2] \div g) + b[1] * (a[2] \div g), (a[2] \div g) * b[2])
QAdd(a, b) == QAddOver(a, b, GCD(a[2], b[2]))
QSub(a, b) == QAdd(a, <<-b[1], b[2]>>)
QMulOver(a, b, g, h) ==
    Q((a[1] \div g) * (b[1] \div h), (a[2] \div h) * (b[2] \div g))
QMul(a, b) ==
    IF a[1] = 0 \/ b[1] = 0 THEN <<0, 1>>
    ELSE QMulOver(a, b, GCD(Abs(a[1]), b[2]), GCD(Abs(b[1]), a[2]))
QDiv(a, b) == Q(a[1] * b[2], a[2] * b[1])

\* A number is a function from the units it has a nonzero component on to
\* those components.
Zero == <<>>
Coef(a, u) == IF u \in DOMAIN a THEN a[u] ELSE <<0, 1>>
Rational(q) == IF q[1] = 0 THEN Zero ELSE 0 :> q
One == 0 :> <<1, 1>>
Add(a, b) ==
    [u \in {w \in DOMAIN a \cup DOMAIN b : QAdd(Coef(a, w), Coef(b, w))[1] # 0} |->
        QAdd(Coef(a, u), Coef(b, u))]
Scale(q, a) == IF q[1] = 0 THEN Zero ELSE [u \in DOMAIN a |-> QMul(q, a[u])]
Sub(a, b) == Add(a, Scale(<<-1, 1>>, b))
\* a / np.sqrt(r), for a rational a
DivSqrt(a, r) == IF DOMAIN a = {} THEN Zero ELSE r :> a[0]
\* a * np.exp(-x/2), for a rational a and an integer point x >= 0
MulExp(a, x) == IF x = 0 \/ DOMAIN a = {} THEN a ELSE (-x) :> a[0]
\* np.pi, on a unit of its own (unit 3)
Pi == 3 :> <<1, 1>>

zeros_like(n) == [j \in 1..n |-> Zero]

(***************************************************************************)
(* The orthogonal polynomials, by their three-term recurrences.            *)
(***************************************************************************)
\* P_0(x) .. P_n(x):  (k+1) P_{k+1} = (2k+1) x P_k - k P_{k-1}
RECURSIVE legendre_rec(_, _, _)
legendre_rec(n, x, t) ==
    IF Len(t) > n THEN t
    ELSE LET k == Len(t) - 1 IN
         legendre_rec(n, x,
             Append(t, QDiv(QSub(QMul(<<2 * k + 1, 1>>, QMul(x, t[k + 1])),
                                 QMul(<<k, 1>>, t[k])),
                            <<k + 1, 1>>)))

legendre_all(n, x) == legendre_rec(n, x, <<<<1, 1>>, x>>)

\* scipy.special.eval_legendre(n, x)
eval_legendre(n, x) == legendre_all(n, x)[n + 1]

\* P_0'(x) .. P_n'(x):  P_{k+1}' = P_{k-1}' + (2k+1) P_k
RECURSIVE legendre_der_rec(_, _, _)
legendre_der_rec(n, P, d) ==
    IF Len(d) > n THEN d
    ELSE LET k == Len(d) - 1 IN
         legendre_der_rec(n, P,
             Append(d, QAdd(d[k], QMul(<<2 * k + 1, 1>>, P[k + 1]))))

legendre_der_all(n, x) ==
    legendre_der_rec(n, legendre_all(n, x), <<<<0, 1>>, <<1, 1>> >>)

\* L_0(x) .. L_n(x):  (k+1) L_{k+1} = (2k+1-x) L_k - k L_{k-1}
RECURSIVE laguerre_rec(_, _, _)
laguerre_rec(n, x, t) ==
    IF Len(t) > n THEN t
    ELSE LET k == Len(t) - 1 IN
         laguerre_rec(n, x,
             Append(t, QDiv(QSub(QMul(QSub(<<2 * k + 1, 1>>, x), t[k + 1]),
                                 QMul(<<k, 1>>, t[k])),
                            <<k + 1, 1>>)))

laguerre_all(n, x) == laguerre_rec(n, x, <<<<1, 1>>, QSub(<<1, 1>>, x)>>)

\* scipy.special.eval_laguerre(n, x)
eval_laguerre(n, x) == laguerre_all(n, x)[n + 1]

\* sum over j of c[j] * T[j], T the values of the polynomials at one point
RECURSIVE series(_, _, _)
series(c, T, j) ==
    IF j > Len(c) THEN Zero ELSE Add(Scale(T[j], c[j]), series(c, T, j + 1))

\* numpy.polynomial.legendre.legval(x, c) at one point
legval(x, c) == series(c, legendre_all(Len(c), x), 1)
\* leg.Legendre(c).deriv(1)(x) at one point
legval_der(x, c) == series(c, legendre_der_all(Len(c), x), 1)
\* numpy.polynomial.laguerre.lagval(x, c) at one point
lagval(x, c) == series(c, laguerre_all(Len(c), x), 1)

\* leg.legvander(x, deg) / lag.lagvander(x, deg): one row per point
legvander(xs, deg) ==
    [r \in 1..Len(xs) |->
        LET T == legendre_all(deg, xs[r]) IN [c \in 1..(deg + 1) |-> Rational(T[c])]]
lagvander(xs, deg) ==
    [r \in 1..Len(xs) |->
        LET T == laguerre_all(deg, xs[r]) IN [c \in 1..(deg + 1) |-> Rational(T[c])]]

family(b) == IF b.cls \in LaguerreAll THEN "laguerre" ELSE "legendre"

\* vandermonde(x) of the Legendre and Laguerre bases; BCBasis and
\* BCBiharmonicBasis have leg.legvander(x, 1) and leg.legvander(x, 3)
vandermonde(b, xs) ==
    IF family(b) = "laguerre" THEN lagvander(xs, b.N - 1)
    ELSE IF b.cls = "legendre.BCBasis" THEN legvander(xs, 1)
    ELSE IF b.cls = "legendre.BCBiharmonicBasis" THEN legvander(xs, 3)
    ELSE legvander(xs, b.N - 1)

(***************************************************************************)
(* _composite_basis: the composite basis from the primary Vandermonde      *)
(* matrix V (a sequence of rows, one per point).  Column k of P is at      *)
(* position k+1.                                                           *)
(***************************************************************************)
ncols(V) == Len(V[1])

\* legendre ShenDirichletBasis._composite_basis
ShenDirichletBasis_composite_basis(b, V, argument) ==
    [r \in 1..Len(V) |-> [c \in 1..ncols(V) |->
        IF c <= ncols(V) - 2
        THEN IF ~b.scaled THEN Sub(V[r][c], V[r][c + 2])
             ELSE DivSqrt(Sub(V[r][c], V[r][c + 2]), 4 * (c - 1) + 6)
        ELSE IF argument = 1
        THEN IF c = ncols(V) - 1
             THEN Scale(<<1, 2>>, Sub(V[r][1], V[r][2]))
             ELSE Scale(<<1, 2>>, Add(V[r][1], V[r][2]))
        ELSE Zero]]

\* ShenNeumannBasis._composite_basis with k*(k+2) for k*(k+1) in the factor
ShenNeumannBasis_composite_basis_k2(b, V, argument) ==
    [r \in 1..Len(V) |-> [c \in 1..ncols(V) |->
        IF c <= ncols(V) - 2
        THEN LET k == c - 1 IN
             Sub(V[r][c],
                 Scale(QDiv(QDiv(<<k * (k + 2), 1>>, <<k + 2, 1>>), <<k + 3, 1>>),
                       V[r][c + 2]))
        ELSE Zero]]

\* ShenNeumannBasis._composite_basis
ShenNeumannBasis_composite_basis(b, V, argument) ==
    [r \in 1..Len(V) |-> [c \in 1..ncols(V) |->
        IF c <= ncols(V) - 2
        THEN LET k == c - 1 IN
             Sub(V[r][c],
                 Scale(QDiv(QDiv(<<k * (k + 1), 1>>, <<k + 2, 1>>), <<k + 3, 1>>),
                       V[r][c + 2]))
        ELSE Zero]]

\* BCBiharmonicBasis.coefficient_matrix()
BCBiharmonicBasis_coefficient_matrix ==
    << << <<1, 2>>, <<-3, 5>>, <<0, 1>>, <<1, 10>> >>,
       << <<1, 2>>, <<3, 5>>, <<0, 1>>, <<-1, 10>> >>,
       << <<1, 6>>, <<-1, 10>>, <<-1, 6>>, <<1, 10>> >>,
       << <<-1, 6>>, <<-1, 10>>, <<1, 6>>, <<1, 10>> >> >>

\* BCBasis.coefficient_matrix()
BCBasis_coefficient_matrix ==
    << << <<1, 2>>, <<-1, 2>> >>,
       << <<1, 2>>, <<1, 2>> >> >>

RECURSIVE dot(_, _, _)
\* sum over m >= j of C[m] * v[m]
dot(C, v, j) ==
    IF j > Len(C) THEN Zero ELSE Add(Scale(C[j], v[j]), dot(C, v, j + 1))

\* ShenBiharmonicBasis._composite_basis
ShenBiharmonicBasis_composite_basis(b, V, argument) ==
    [r \in 1..Len(V) |-> [c \in 1..ncols(V) |->
        IF c <= ncols(V) - 4
        THEN LET k == c - 1 IN
             Add(Sub(V[r][c],
                     Scale(QDiv(<<2 * (2 * k + 5), 1>>, <<2 * k + 7, 1>>), V[r][c + 2])),
                 Scale(QDiv(<<2 * k + 3, 1>>, <<2 * k + 7, 1>>), V[r][c + 4]))
        ELSE IF argument = 1
        THEN dot(BCBiharmonicBasis_coefficient_matrix[c - (ncols(V) - 4)], V[r], 1)
        ELSE Zero]]

\* laguerre ShenDirichletBasis._composite_basis
LaguerreShenDirichletBasis_composite_basis(b, V, argument) ==
    [r \in 1..Len(V) |-> [c \in 1..ncols(V) |->
        IF c <= ncols(V) - 1 THEN Sub(V[r][c], V[r][c + 1]) ELSE Zero]]

\* LegendreBase._composite_basis, LaguerreBase._composite_basis
Base_composite_basis(b, V, argument) == V

\* BCBasis._composite_basis with the two columns exchanged
BCBasis_composite_basis_exchanged(b, V, argument) ==
    [r \in 1..Len(V) |-> [c \in 1..ncols(V) |->
        IF c = 1 THEN Scale(<<1, 2>>, Add(V[r][1], V[r][2]))
        ELSE IF c = 2 THEN Scale(<<1, 2>>, Sub(V[r][1], V[r][2]))
        ELSE Zero]]

\* BCBasis._composite_basis: P = np.zeros(V.shape);
\* P[:, 0] = (V[:, 0] - V[:, 1])/2; P[:, 1] = (V[:, 0] + V[:, 1])/2
BCBasis_composite_basis(b, V, argument) ==
    [r \in 1..Len(V) |-> [c \in 1..ncols(V) |->
        IF c = 1 THEN Scale(<<1, 2>>, Sub(V[r][1], V[r][2]))
        ELSE IF c = 2 THEN Scale(<<1, 2>>, Add(V[r][1], V[r][2]))
        ELSE Zero]]

\* BCBiharmonicBasis._composite_basis:
\* np.tensordot(V[:, :4], self.coefficient_matrix(), (1, 1))
BCBiharmonicBasis_composite_basis(b, V, argument) ==
    [r \in 1..Len(V) |-> [i \in 1..4 |->
        dot(BCBiharmonicBasis_coefficient_matrix[i], V[r], 1)]]

composite_basis(b, V, argument) ==
    CASE b.cls = "legendre.ShenDirichletBasis" -> ShenDirichletBasis_composite_basis(b, V, argument)
      [] b.cls = "legendre.ShenNeumannBasis" -> ShenNeumannBasis_composite_basis(b, V, argument)
      [] b.cls = "legendre.ShenBiharmonicBasis" -> ShenBiharmonicBasis_composite_basis(b, V, argument)
      [] b.cls = "laguerre.ShenDirichletBasis" -> LaguerreShenDirichletBasis_composite_basis(b, V, argument)
      [] b.cls = "legendre.BCBasis" -> BCBasis_composite_basis(b, V, argument)
      [] b.cls = "legendre.BCBiharmonicBasis" -> BCBiharmonicBasis_composite_basis(b, V, argument)
      [] OTHER -> Base_composite_basis(b, V, argument)

\* Number of trailing boundary-lift slots of a Shen basis: N minus the stop
\* of slice().
lift_slots(b) ==
    CASE b.cls = "legendre.ShenBiharmonicBasis" -> 4
      [] b.cls = "laguerre.ShenDirichletBasis" -> 1
      [] b.cls \in {"legendre.ShenDirichletBasis", "legendre.ShenNeumannBasis"} -> 2
      [] OTHER -> 0

\* evaluate_basis_all(x, argument): the composite basis at the points x.
\* The Laguerre Vandermonde matrix is first multiplied by exp(-x/2).
evaluate_basis_all(b, xs, argument) ==
    LET V == vandermonde(b, xs) IN
    IF family(b) = "laguerre"
    THEN composite_basis(b, [r \in 1..Len(V) |->
                               [c \in 1..ncols(V) |-> MulExp(V[r][c], xs[r][1])]],
                         argument)
    ELSE composite_basis(b, V, argument)

\* An array a call returns, and an exception it raises.
Array(v) == [kind |-> "array", val |-> v]
Raise(exc) == [kind |-> "error", exc |-> exc]

(***************************************************************************)
(* The operations on a constructed Shen basis.                             *)
(***************************************************************************)
LegendreMeshes ==
    { << <<-1, 1>>, <<1, 1>> >>, << <<0, 1>>, <<1, 2>> >> }
LaguerreMeshes ==
    { << <<0, 1>> >>, << <<1, 1>>, <<2, 1>> >> }
Meshes(b) == IF family(b) = "laguerre" THEN LaguerreMeshes ELSE LegendreMeshes

Means == {<<0, 1>>, <<2, 1>>}

Init ==
    \E cls \in ShenClasses, N \in Ns, ph \in PaddingHalves, scaled \in BOOLEAN,
       mean \in Means :
        /\ scaled => cls = "legendre.ShenDirichletBasis"
        /\ mean[1] # 0 => cls = "legendre.ShenNeumannBasis"
        /\ Constructed(init(cls, N, "LG", ph, scaled, bc_default(cls), mean, 0))
        /\ nplan = 0
        /\ call = ctor_call(N, ph)
        /\ steps = <<>>
        /\ ret = None

CompositeBasis ==
    \E xs \in Meshes(basis), argument \in {0, 1} :
        LET V == vandermonde(basis, xs) IN
        /\ call' = [op |-> "_composite_basis", V |-> V, argument |-> argument]
        /\ ret' = Array(composite_basis(basis, V, argument))
        /\ steps' = <<>>
        /\ UNCHANGED <<basis, nalloc, nplan>>

(***************************************************************************)
(* evaluate_basis(x, i) and evaluate_basis_derivative(x, i, k), k <= 1.    *)
(***************************************************************************)
\* BCBasis.shape and BCBiharmonicBasis.shape: 2 and 4 functions, N points
BCBasis_shape(b, forward_output) == IF forward_output THEN 2 ELSE b.N

BCBiharmonicBasis_shape(b, forward_output) == IF forward_output THEN 4 ELSE b.N

\* SpectralBase.shape(forward_output): N modes, or the padded length.
shape(b, forward_output) ==
    IF b.cls = "legendre.BCBasis" THEN BCBasis_shape(b, forward_output)
    ELSE IF b.cls = "legendre.BCBiharmonicBasis"
    THEN BCBiharmonicBasis_shape(b, forward_output)
    ELSE IF forward_output THEN b.N ELSE padded_length(b.N, b.ph)

\* The coefficient array with the given entries (0-based index, value) set.
coeffs(n, entries) ==
    [j \in 1..n |-> IF \E e \in entries : e[1] = j - 1
                    THEN Rational((CHOOSE e \in entries : e[1] = j - 1)[2])
                    ELSE Zero]

\* basis[np.array([...])] = (...) raises IndexError beyond the array.
index_ok(n, entries) == \A e \in entries : e[1] < n

poly_at(c, x, k) == IF k = 0 THEN legval(x, c) ELSE legval_der(x, c)

\* legendre ShenDirichletBasis.evaluate_basis
ShenDirichletBasis_evaluate_basis(b, xs, i) ==
    Array([p \in 1..Len(xs) |->
        LET v == Rational(QSub(eval_legendre(i, xs[p]), eval_legendre(i + 2, xs[p])))
        IN IF b.scaled THEN DivSqrt(v, 4 * i + 6) ELSE v])

\* legendre ShenDirichletBasis.evaluate_basis_derivative
ShenDirichletBasis_evaluate_basis_derivative(b, xs, i, k) ==
    LET entries == {<<i, <<1, 1>> >>, <<i + 2, <<-1, 1>> >>} IN
    IF ~index_ok(shape(b, TRUE), entries) THEN Raise("IndexError")
    ELSE Array([p \in 1..Len(xs) |->
             LET v == poly_at(coeffs(shape(b, TRUE), entries), xs[p], k)
             IN IF b.scaled THEN DivSqrt(v, 4 * i + 6) ELSE v])

neumann_factor(i) == QDiv(QDiv(<<i * (i + 1), 1>>, <<i + 2, 1>>), <<i + 3, 1>>)

\* ShenNeumannBasis.evaluate_basis
ShenNeumannBasis_evaluate_basis(b, xs, i) ==
    Array([p \in 1..Len(xs) |->
        Rational(QSub(eval_legendre(i, xs[p]),
                      QMul(neumann_factor(i), eval_legendre(i + 2, xs[p]))))])

\* ShenNeumannBasis.evaluate_basis_derivative
ShenNeumannBasis_evaluate_basis_derivative(b, xs, i, k) ==
    LET entries == {<<i, <<1, 1>> >>, <<i + 2, QSub(<<0, 1>>, neumann_factor(i))>>} IN
    IF ~index_ok(shape(b, TRUE), entries) THEN Raise("IndexError")
    ELSE Array([p \in 1..Len(xs) |-> poly_at(coeffs(shape(b, TRUE), entries), xs[p], k)])

biharmonic_entries(i) ==
    {<<i, <<1, 1>> >>,
     <<i + 2, QSub(<<0, 1>>, QDiv(<<2 * (2 * i + 5), 1>>, <<2 * i + 7, 1>>))>>,
     <<i + 4, QDiv(<<2 * i + 3, 1>>, <<2 * i + 7, 1>>)>>}

\* The boundary function of ShenBiharmonicBasis.sympy_basis(i), i >= N-4:
\* the Legendre series with row i-(N-4) of the BC coefficient matrix.
biharmonic_bc_series(b, i) ==
    [j \in 1..4 |-> Rational(BCBiharmonicBasis_coefficient_matrix[i - (b.N - 4) + 1][j])]

\* ShenBiharmonicBasis.evaluate_basis
ShenBiharmonicBasis_evaluate_basis(b, xs, i) ==
    IF i < b.N - 4
    THEN Array([p \in 1..Len(xs) |->
             Rational(QAdd(QSub(eval_legendre(i, xs[p]),
                                QMul(QDiv(<<2 * (2 * i + 5), 1>>, <<2 * i + 7, 1>>),
                                     eval_legendre(i + 2, xs[p]))),
                           QMul(QDiv(<<2 * i + 3, 1>>, <<2 * i + 7, 1>>),
                                eval_legendre(i + 4, xs[p]))))])
    ELSE IF i - (b.N - 4) >= 4 THEN Raise("IndexError")
    ELSE Array([p \in 1..Len(xs) |-> legval(xs[p], biharmonic_bc_series(b, i))])

\* ShenBiharmonicBasis.evaluate_basis_derivative with a sign slip in the
\* coefficient of mode i+4
ShenBiharmonicBasis_evaluate_basis_derivative_sign(b, xs, i, k) ==
    IF i < b.N - 4
    THEN Array([p \in 1..Len(xs) |->
             poly_at(coeffs(shape(b, TRUE),
                            {<<i, <<1, 1>> >>,
                             <<i + 2, QSub(<<0, 1>>, QDiv(<<2 * (2 * i + 5), 1>>, <<2 * i + 7, 1>>))>>,
                             <<i + 4, QSub(<<0, 1>>, QDiv(<<2 * i + 3, 1>>, <<2 * i + 7, 1>>))>>}),
                     xs[p], k)])
    ELSE Raise("IndexError")

\* ShenBiharmonicBasis.evaluate_basis_derivative
ShenBiharmonicBasis_evaluate_basis_derivative(b, xs, i, k) ==
    IF i < b.N - 4
    THEN Array([p \in 1..Len(xs) |->
             poly_at(coeffs(shape(b, TRUE), biharmonic_entries(i)), xs[p], k)])
    ELSE IF i - (b.N - 4) >= 4 THEN Raise("IndexError")
    ELSE Array([p \in 1..Len(xs) |-> poly_at(biharmonic_bc_series(b, i), xs[p], k)])

\* laguerre ShenDirichletBasis.evaluate_basis
LaguerreShenDirichletBasis_evaluate_basis(b, xs, i) ==
    Array([p \in 1..Len(xs) |->
        MulExp(Rational(QSub(eval_laguerre(i, xs[p]), eval_laguerre(i + 1, xs[p]))),
               xs[p][1])])

evaluate_basis(b, xs, i) ==
    CASE b.cls = "legendre.ShenDirichletBasis" -> ShenDirichletBasis_evaluate_basis(b, xs, i)
      [] b.cls = "legendre.ShenNeumannBasis" -> ShenNeumannBasis_evaluate_basis(b, xs, i)
      [] b.cls = "legendre.ShenBiharmonicBasis" -> ShenBiharmonicBasis_evaluate_basis(b, xs, i)
      [] b.cls = "laguerre.ShenDirichletBasis" -> LaguerreShenDirichletBasis_evaluate_basis(b, xs, i)

evaluate_basis_derivative(b, xs, i, k) ==
    CASE b.cls = "legendre.ShenDirichletBasis" -> ShenDirichletBasis_evaluate_basis_derivative(b, xs, i, k)
      [] b.cls = "legendre.ShenNeumannBasis" -> ShenNeumannBasis_evaluate_basis_derivative(b, xs, i, k)
      [] b.cls = "legendre.ShenBiharmonicBasis" -> ShenBiharmonicBasis_evaluate_basis_derivative(b, xs, i, k)

EvaluateBasis ==
    \E xs \in Meshes(basis), i \in 0..(basis.N - 1) :
        /\ call' = [op |-> "evaluate_basis", x |-> xs, i |-> i]
        /\ ret' = evaluate_basis(basis, xs, i)
        /\ steps' = <<>>
        /\ UNCHANGED <<basis, nalloc, nplan>>

EvaluateBasisDerivative ==
    /\ family(basis) = "legendre"
    /\ \E xs \in Meshes(basis), i \in 0..(basis.N - 1), k \in {0, 1} :
        /\ call' = [op |-> "evaluate_basis_derivative", x |-> xs, i |-> i, k |-> k]
        /\ ret' = evaluate_basis_derivative(basis, xs, i, k)
        /\ steps' = <<>>
        /\ UNCHANGED <<basis, nalloc, nplan>>


(***************************************************************************)
(* to_ortho(input_array, output_array): the coefficients of the orthogonal *)
(* family.  Arrays are one-dimensional, slot j is at position j+1, and     *)
(* the slice assignments are made one after the other as the code makes    *)
(* them.                                                                   *)
(***************************************************************************)
\* a * b where one of the two is rational
Mul(a, b) ==
    CASE DOMAIN a \subseteq {0} -> Scale(Coef(a, 0), b)
      [] DOMAIN b \subseteq {0} -> Scale(Coef(b, 0), a)

\* SpectralBase.wavenumbers(): the indices of the interior modes
wavenumbers(b) == [j \in 1..(b.N - lift_slots(b)) |-> j - 1]

\* Within one call the contents of the arrays are kept in st.mem (array id
\* -> contents) and every write and every collaborator called is appended to
\* st.steps with the array it acts on.
write(st, a, val) == [st EXCEPT !.mem = (a.id :> val) @@ st.mem]
called(st, fn, a) == [st EXCEPT !.steps = Append(st.steps, [fn |-> fn, array |-> a.id])]

\* The coefficient matrix of the basis get_bc_basis() returns
bc_coefficient_matrix(b) ==
    IF b.cls = "legendre.ShenBiharmonicBasis" THEN BCBiharmonicBasis_coefficient_matrix
    ELSE BCBasis_coefficient_matrix

\* BoundaryValues.add_to_orthogonal(output, input): the contribution of the
\* boundary values bc is added, through the coefficient matrix of the
\* boundary basis, to the orthogonal slots of the lift functions.  With zero
\* boundary values output is unchanged.
add_to_orthogonal(b, output, input) ==
    LET K == Len(b.bc)
        C == bc_coefficient_matrix(b)
        lift(j) == dot([i \in 1..K |-> C[i][j]],
                       [i \in 1..K |-> Rational(<<b.bc[i], 1>>)], 1)
    IN [j \in 1..Len(output) |-> IF j <= K THEN Add(output[j], lift(j)) ELSE output[j]]

\* output_array, or np.zeros_like(input_array) when it is None.  The array
\* allocated here has id 0: it is none of the planned buffers.
output_or_zeros(input_array, output_array) ==
    IF output_array = None
    THEN [kind |-> "array", id |-> 0, val |-> zeros_like(Len(input_array))]
    ELSE output_array

\* What to_ortho returns: the receiver, the output array and the steps taken.
to_ortho_result(b, st, out) ==
    [b |-> b, ret |-> [kind |-> "array", id |-> out.id, val |-> st.mem[out.id]],
     steps |-> st.steps]

\* legendre ShenDirichletBasis.to_ortho with add_to_orthogonal called before
\* the subtraction at s1
ShenDirichletBasis_to_ortho_lift_first(b, input_array, output_array) ==
    LET n == Len(input_array)
        k == wavenumbers(b)
        out == output_or_zeros(input_array, output_array)
        st0 == [mem |-> (out.id :> out.val), steps |-> <<>>]
        term(j) == IF b.scaled THEN DivSqrt(input_array[j], 4 * k[j] + 6)
                   ELSE input_array[j]
        st1 == called(write(st0, out, [j \in 1..n |->
                   IF j <= n - 2 THEN term(j) ELSE out.val[j]]),
                      "output_array[s0] =", out)
        st2 == called(write(st1, out,
                            add_to_orthogonal(b, st1.mem[out.id], input_array)),
                      "add_to_orthogonal", out)
        st3 == called(write(st2, out, [j \in 1..n |->
                   IF j >= 3 THEN Sub(st2.mem[out.id][j], term(j - 2))
                   ELSE st2.mem[out.id][j]]),
                      "output_array[s1] -=", out)
    IN to_ortho_result(b, st3, out)

\* legendre ShenDirichletBasis.to_ortho
ShenDirichletBasis_to_ortho(b, input_array, output_array) ==
    LET n == Len(input_array)
        k == wavenumbers(b)
        out == output_or_zeros(input_array, output_array)
        st0 == [mem |-> (out.id :> out.val), steps |-> <<>>]
        term(j) == IF b.scaled THEN DivSqrt(input_array[j], 4 * k[j] + 6)
                   ELSE input_array[j]
        st1 == called(write(st0, out, [j \in 1..n |->
                   IF j <= n - 2 THEN term(j) ELSE out.val[j]]),
                      "output_array[s0] =", out)
        st2 == called(write(st1, out, [j \in 1..n |->
                   IF j >= 3 THEN Sub(st1.mem[out.id][j], term(j - 2))
                   ELSE st1.mem[out.id][j]]),
                      "output_array[s1] -=", out)
        st3 == called(write(st2, out,
                            add_to_orthogonal(b, st2.mem[out.id], input_array)),
                      "add_to_orthogonal", out)
    IN to_ortho_result(b, st3, out)

\* A recomputation of the factor vectors: the call of wavenumbers(), logged
\* with the id -2 of the vector it makes.
recompute(st) ==
    [st EXCEPT !.steps = Append(st.steps, [fn |-> "wavenumbers", array |-> -2])]

\* ShenNeumannBasis.set_factor_array: the receiver and the log after it
ShenNeumannBasis_set_factor_array(b, st, v) ==
    IF Len(b._factor) # Len(v)
    THEN LET k == wavenumbers(b) IN
         [b |-> [b EXCEPT !._factor =
                    [j \in 1..Len(k) |-> Rational(neumann_factor(k[j]))]],
          st |-> recompute(st)]
    ELSE [b |-> b, st |-> st]

\* legendre ShenDirichletBasis.set_factor_array
ShenDirichletBasis_set_factor_array(b, st, v) ==
    IF b.scaled /\ Len(b._factor) # Len(v)
    THEN LET k == wavenumbers(b) IN
         [b |-> [b EXCEPT !._factor =
                    [j \in 1..Len(k) |-> DivSqrt(One, 4 * k[j] + 6)]],
          st |-> recompute(st)]
    ELSE [b |-> b, st |-> st]

\* ShenNeumannBasis.to_ortho
ShenNeumannBasis_to_ortho(b, input_array, output_array) ==
    LET n == Len(input_array)
        out == output_or_zeros(input_array, output_array)
        f == ShenNeumannBasis_set_factor_array(b,
                  [mem |-> (out.id :> out.val), steps |-> <<>>], input_array)
        b1 == f.b
        st0 == f.st
        st1 == called(write(st0, out, [j \in 1..n |->
                   IF j <= n - 2 THEN input_array[j] ELSE out.val[j]]),
                      "output_array[s0] =", out)
        st2 == called(write(st1, out, [j \in 1..n |->
                   IF j >= 3
                   THEN Sub(st1.mem[out.id][j], Mul(b1._factor[j - 2], input_array[j - 2]))
                   ELSE st1.mem[out.id][j]]),
                      "output_array[s1] -=", out)
    IN to_ortho_result(b1, st2, out)


\* ShenBiharmonicBasis.set_factor_arrays
ShenBiharmonicBasis_set_factor_arrays(b, st, v) ==
    IF Len(b._factor1) # IF Len(v) < b.N - 4 THEN Len(v) ELSE b.N - 4
    THEN LET k == wavenumbers(b) IN
         [b |-> [b EXCEPT
            !._factor1 = [j \in 1..Len(k) |->
                Rational(QDiv(<<-2 * (2 * k[j] + 5), 1>>, <<2 * k[j] + 7, 1>>))],
            !._factor2 = [j \in 1..Len(k) |->
                Rational(QDiv(<<2 * k[j] + 3, 1>>, <<2 * k[j] + 7, 1>>))]],
          st |-> recompute(st)]
    ELSE [b |-> b, st |-> st]

\* ShenBiharmonicBasis.set_w_hat with f1 applied at s4 and f2 at s2
ShenBiharmonicBasis_set_w_hat_swapped(b, w_hat, fk, f1, f2) ==
    LET n == Len(fk)
        w1 == [j \in 1..n |-> IF j <= b.N - 4 THEN fk[j] ELSE w_hat[j]]
        w2 == [j \in 1..n |->
                  IF j >= 3 /\ j <= n - 2 THEN Add(w1[j], Mul(f2[j - 2], fk[j - 2]))
                  ELSE w1[j]]
    IN [j \in 1..n |-> IF j >= 5 THEN Add(w2[j], Mul(f1[j - 4], fk[j - 4])) ELSE w2[j]]

\* ShenBiharmonicBasis.set_w_hat
ShenBiharmonicBasis_set_w_hat(b, w_hat, fk, f1, f2) ==
    LET n == Len(fk)
        w1 == [j \in 1..n |-> IF j <= b.N - 4 THEN fk[j] ELSE w_hat[j]]
        w2 == [j \in 1..n |->
                  IF j >= 3 /\ j <= n - 2 THEN Add(w1[j], Mul(f1[j - 2], fk[j - 2]))
                  ELSE w1[j]]
    IN [j \in 1..n |-> IF j >= 5 THEN Add(w2[j], Mul(f2[j - 4], fk[j - 4])) ELSE w2[j]]

\* ShenBiharmonicBasis.to_ortho
ShenBiharmonicBasis_to_ortho(b, input_array, output_array) ==
    LET out == output_or_zeros(input_array, output_array)
        f == ShenBiharmonicBasis_set_factor_arrays(b,
                  [mem |-> (out.id :> out.val), steps |-> <<>>], input_array)
        b1 == f.b
        st0 == f.st
        st1 == called(write(st0, out,
                            ShenBiharmonicBasis_set_w_hat(b1, out.val, input_array,
                                                          b1._factor1, b1._factor2)),
                      "set_w_hat", out)
        st2 == called(write(st1, out,
                            add_to_orthogonal(b1, st1.mem[out.id], input_array)),
                      "add_to_orthogonal", out)
    IN to_ortho_result(b1, st2, out)

\* laguerre ShenDirichletBasis.to_ortho
LaguerreShenDirichletBasis_to_ortho(b, input_array, output_array) ==
    LET n == Len(input_array)
        out == output_or_zeros(input_array, output_array)
        st0 == [mem |-> (out.id :> out.val), steps |-> <<>>]
        st1 == called(write(st0, out, [j \in 1..n |->
                   IF j <= n - 1 THEN input_array[j] ELSE out.val[j]]),
                      "output_array[s0] =", out)
        st2 == called(write(st1, out, [j \in 1..n |->
                   IF j >= 2 THEN Sub(st1.mem[out.id][j], input_array[j - 1])
                   ELSE st1.mem[out.id][j]]),
                      "output_array[s1] -=", out)
    IN to_ortho_result(b, st2, out)

to_ortho(b, input_array, output_array) ==
    CASE b.cls = "legendre.ShenDirichletBasis" ->
            ShenDirichletBasis_to_ortho(b, input_array, output_array)
      [] b.cls = "legendre.ShenNeumannBasis" ->
            ShenNeumannBasis_to_ortho(b, input_array, output_array)
      [] b.cls = "legendre.ShenBiharmonicBasis" ->
            ShenBiharmonicBasis_to_ortho(b, input_array, output_array)
      [] b.cls = "laguerre.ShenDirichletBasis" ->
            LaguerreShenDirichletBasis_to_ortho(b, input_array, output_array)

\* The unit coefficient vector e_k of length n
unit(n, k) == [j \in 1..n |-> IF j = k + 1 THEN One ELSE Zero]

\* The coefficient arrays to_ortho is called with: the unit vectors and the
\* array of ones.
CoefficientArrays(n) == {unit(n, k) : k \in 0..(n - 1)} \cup {[j \in 1..n |-> One]}

ToOrtho ==
    \E input_array \in CoefficientArrays(basis.N) :
        LET r == to_ortho(basis, input_array, None) IN
        /\ call' = [op |-> "to_ortho", input_array |-> input_array,
                    output_array |-> None]
        /\ basis' = r.b
        /\ ret' = r.ret
        /\ steps' = r.steps
        /\ UNCHANGED <<nalloc, nplan>>


(***************************************************************************)
(* eval(x, u): the series with the composite coefficients u at the points  *)
(* x.  work[(u, 0, True)] is a zeroed array of the shape of u.             *)
(***************************************************************************)
\* u[:-2]*self._factor, where np.ones(1) broadcasts
times_factor(b, u) ==
    [j \in 1..(Len(u) - 2) |->
        Mul(u[j], IF Len(b._factor) = 1 THEN b._factor[1] ELSE b._factor[j])]

eval_result(b, st, val) == [b |-> b, ret |-> Array(val), steps |-> st.steps]

\* legendre ShenDirichletBasis.eval
ShenDirichletBasis_eval(b, xs, u) ==
    LET n == Len(u)
        f == ShenDirichletBasis_set_factor_array(b, [mem |-> <<>>, steps |-> <<>>], u)
        c == times_factor(f.b, u)
        w_hat == [j \in 1..n |-> IF j >= 3 THEN c[j - 2] ELSE Zero]
        lift(x) == Add(Scale(QMul(<<1, 2>>, QAdd(<<1, 1>>, x)), u[n]),
                       Scale(QMul(<<1, 2>>, QSub(<<1, 1>>, x)), u[n - 1]))
    IN eval_result(f.b, f.st, [p \in 1..Len(xs) |->
           Add(Sub(legval(xs[p], c), legval(xs[p], w_hat)), lift(xs[p]))])

\* ShenNeumannBasis.eval
ShenNeumannBasis_eval(b, xs, u) ==
    LET n == Len(u)
        f == ShenNeumannBasis_set_factor_array(b, [mem |-> <<>>, steps |-> <<>>], u)
        w_hat == [j \in 1..n |-> IF j >= 3 THEN Mul(f.b._factor[j - 2], u[j - 2])
                                 ELSE Zero]
    IN eval_result(f.b, f.st, [p \in 1..Len(xs) |->
           Sub(legval(xs[p], SubSeq(u, 1, n - 2)), legval(xs[p], w_hat))])

\* ShenBiharmonicBasis.eval
ShenBiharmonicBasis_eval(b, xs, u) ==
    LET n == Len(u)
        f == ShenBiharmonicBasis_set_factor_arrays(b, [mem |-> <<>>, steps |-> <<>>], u)
        \* w_hat[2:-2] = self._factor1*u[:-4]
        w1 == [j \in 1..n |-> IF j >= 3 /\ j <= n - 2
                              THEN Mul(f.b._factor1[j - 2], u[j - 2]) ELSE Zero]
        \* w_hat[4:] = self._factor2*u[:-4]; w_hat[:4] = 0
        w2 == [j \in 1..n |-> IF j >= 5 THEN Mul(f.b._factor2[j - 4], u[j - 4])
                              ELSE Zero]
    IN eval_result(f.b, f.st, [p \in 1..Len(xs) |->
           Add(Add(legval(xs[p], SubSeq(u, 1, n - 4)),
                   legval(xs[p], SubSeq(w1, 1, n - 2))),
               legval(xs[p], w2))])

\* laguerre ShenDirichletBasis.eval
LaguerreShenDirichletBasis_eval(b, xs, u) ==
    LET n == Len(u)
        w_hat == [j \in 1..n |-> IF j >= 2 THEN u[j - 1] ELSE Zero]
    IN eval_result(b, [mem |-> <<>>, steps |-> <<>>], [p \in 1..Len(xs) |->
           MulExp(Sub(lagval(xs[p], u), lagval(xs[p], w_hat)), xs[p][1])])

eval(b, xs, u) ==
    CASE b.cls = "legendre.ShenDirichletBasis" -> ShenDirichletBasis_eval(b, xs, u)
      [] b.cls = "legendre.ShenNeumannBasis" -> ShenNeumannBasis_eval(b, xs, u)
      [] b.cls = "legendre.ShenBiharmonicBasis" -> ShenBiharmonicBasis_eval(b, xs, u)
      [] b.cls = "laguerre.ShenDirichletBasis" -> LaguerreShenDirichletBasis_eval(b, xs, u)

(***************************************************************************)
(* forward.  Within one call the contents of the buffers are kept in mem   *)
(* (array id -> contents) and every collaborator called is appended to     *)
(* steps with the array it was handed.  Every buffer a forward call reads  *)
(* it has written before, so no contents are carried between calls.  The   *)
(* buffers of a constructed basis are one-dimensional.                     *)
(***************************************************************************)
length(a) == a.shape.val[1]

\* v with its last K slots set to zero
zero_last(v, K) == [j \in 1..Len(v) |-> IF j > Len(v) - K THEN Zero ELSE v[j]]

\* SpectralBase.vandermonde_scalar_product: leaves the inner products w of
\* the input with the basis functions in output_array.
SpectralBase_vandermonde_scalar_product(b, st, output_array, w) ==
    write(st, output_array, w)

\* legendre ShenDirichletBasis.vandermonde_scalar_product
ShenDirichletBasis_vandermonde_scalar_product(b, st, output_array, w) ==
    LET st1 == SpectralBase_vandermonde_scalar_product(b, st, output_array, w)
    IN write(st1, output_array, zero_last(st1.mem[output_array.id], 2))

\* SpectralBase.scalar_product with fast_transform=False: the Vandermonde
\* scalar product into the temporary array of the scalar_product transform.
SpectralBase_scalar_product(b, st, w) ==
    LET tmp == b.scalar_product.tmp_array
        st1 == IF b.cls = "legendre.ShenDirichletBasis"
               THEN ShenDirichletBasis_vandermonde_scalar_product(b, st, tmp, w)
               ELSE SpectralBase_vandermonde_scalar_product(b, st, tmp, w)
    IN called(st1, "scalar_product", tmp)

\* ShenBiharmonicBasis.scalar_product
ShenBiharmonicBasis_scalar_product(b, st, w) ==
    LET st1 == SpectralBase_scalar_product(b, st, w)
        output == b.scalar_product.output_array
    IN write(st1, output, zero_last(st1.mem[output.id], 4))

\* ShenNeumannBasis.scalar_product: mode 0 of the generic scalar product is
\* overwritten with mean*pi and the last two slots with zero.
ShenNeumannBasis_scalar_product(b, st, w) ==
    LET st1 == SpectralBase_scalar_product(b, st, w)
        output == b.scalar_product.output_array
        v == st1.mem[output.id]
    IN write(st1, output, zero_last([v EXCEPT ![1] = Scale(b.mean, Pi)], 2))

\* BoundaryValues.add_mass_rhs(u): with zero boundary values u is unchanged.
add_mass_rhs(b, st, u) == called(st, "add_mass_rhs", u)

\* SpectralBase.apply_inverse_mass(u): the solution x of the mass system
\* replaces the right-hand side u; a zero right-hand side has solution zero.
\* The first Neumann basis function is P_0, which is orthogonal to all the
\* others and has (P_0, P_0) = 2: mode 0 of the Neumann solution is rhs[0]/2.
apply_inverse_mass(b, st, u, x) ==
    LET rhs == st.mem[u.id]
        sol == IF \A j \in 1..Len(rhs) : rhs[j] = Zero THEN rhs
               ELSE IF b.cls = "legendre.ShenNeumannBasis"
               THEN [x EXCEPT ![1] = Scale(<<1, 2>>, rhs[1])]
               ELSE x
    IN called(write(st, u, sol), "apply_inverse_mass", u)

\* BoundaryValues.set_boundary_dofs(u, final): with zero boundary values the
\* trailing slots of u, one per boundary value, are set to zero.
set_boundary_dofs(b, st, u, final) ==
    called(write(st, u, zero_last(st.mem[u.id], Len(b.bc))), "set_boundary_dofs", u)

\* SpectralBase._truncation_forward(padded_array, trunc_array): with padding
\* the leading slots of the padded array are copied to the truncated array.
truncation_forward(b, st, padded_array, trunc_array) ==
    LET st1 == IF padding_active(b)
               THEN write(st, trunc_array,
                          [j \in 1..length(trunc_array) |-> st.mem[padded_array.id][j]])
               ELSE st
    IN called(st1, "_truncation_forward", trunc_array)

returned(st, a) ==
    [ret |-> [kind |-> "array", id |-> a.id, val |-> st.mem[a.id]], steps |-> st.steps]

\* legendre ShenDirichletBasis.forward with add_mass_rhs after the inverse mass
ShenDirichletBasis_forward_reordered(b, w, x) ==
    LET st1 == SpectralBase_scalar_product(b, [mem |-> <<>>, steps |-> <<>>], w)
        u == b.scalar_product.tmp_array
        st2 == apply_inverse_mass(b, st1, u, x)
        st3 == add_mass_rhs(b, st2, u)
        st4 == set_boundary_dofs(b, st3, u, FALSE)
        st5 == truncation_forward(b, st4, u, b.forward.output_array)
    IN returned(st5, b.forward.output_array)

\* legendre ShenDirichletBasis.forward (output_array None)
ShenDirichletBasis_forward(b, w, x) ==
    LET st1 == SpectralBase_scalar_product(b, [mem |-> <<>>, steps |-> <<>>], w)
        u == b.scalar_product.tmp_array
        st2 == add_mass_rhs(b, st1, u)
        st3 == apply_inverse_mass(b, st2, u, x)
        st4 == set_boundary_dofs(b, st3, u, FALSE)
        st5 == truncation_forward(b, st4, u, b.forward.output_array)
    IN returned(st5, b.forward.output_array)

\* ShenBiharmonicBasis.forward (output_array None)
ShenBiharmonicBasis_forward(b, w, x) ==
    LET st1 == ShenBiharmonicBasis_scalar_product(b, [mem |-> <<>>, steps |-> <<>>], w)
        u == b.scalar_product.tmp_array
        st2 == add_mass_rhs(b, st1, u)
        st3 == apply_inverse_mass(b, st2, u, x)
        st4 == truncation_forward(b, st3, u, b.forward.output_array)
        st5 == set_boundary_dofs(b, st4, b.forward.output_array, FALSE)
    IN returned(st5, b.forward.output_array)

\* SpectralBase.forward (output_array None), which ShenNeumannBasis inherits:
\* the scalar product, the inverse mass, the truncation.
SpectralBase_forward(b, w, x) ==
    LET st1 == ShenNeumannBasis_scalar_product(b, [mem |-> <<>>, steps |-> <<>>], w)
        u == b.scalar_product.tmp_array
        st2 == apply_inverse_mass(b, st1, u, x)
        st3 == truncation_forward(b, st2, u, b.forward.output_array)
    IN returned(st3, b.forward.output_array)

forward(b, w, x) ==
    CASE b.cls = "legendre.ShenDirichletBasis" -> ShenDirichletBasis_forward(b, w, x)
      [] b.cls = "legendre.ShenNeumannBasis" -> SpectralBase_forward(b, w, x)
      [] b.cls = "legendre.ShenBiharmonicBasis" -> ShenBiharmonicBasis_forward(b, w, x)

\* The inner products of the input arrays forward is called with, and the
\* solutions of the mass system.
InnerProducts(m) == {[j \in 1..m |-> Zero], [j \in 1..m |-> One]}
Solutions(w) ==
    IF \A j \in 1..Len(w) : w[j] = Zero THEN {w} ELSE CoefficientArrays(Len(w))

Forward ==
    /\ basis.cls \in LegendreShen
    /\ \E w \in InnerProducts(length(basis.forward.input_array)) :
       \E x \in Solutions(w) :
        LET r == forward(basis, w, x) IN
        /\ call' = [op |-> "forward", scalar_product |-> w, inverse_mass |-> x]
        /\ ret' = r.ret
        /\ steps' = r.steps
        /\ UNCHANGED <<basis, nalloc, nplan>>


Next ==
    CompositeBasis \/ EvaluateBasis \/ EvaluateBasisDerivative \/ ToOrtho \/ Forward

Spec == Init /\ [][Next]_vars


(***************************************************************************)
(* The life of a constructed Shen basis: coefficient arrays are converted  *)
(* and evaluated, with and without an output array of the caller's; the    *)
(* basis is planned again, transformed, refined and dealiased.             *)
(***************************************************************************)
MaxReplans == 1

InitLife ==
    \E cls \in ShenClasses, N \in Ns, scaled \in BOOLEAN :
        /\ scaled => cls = "legendre.ShenDirichletBasis"
        /\ Constructed(init(cls, N, "LG", 2, scaled, bc_default(cls), <<0, 1>>, 0))
        /\ nplan = 0
        /\ call = ctor_call(N, 2)
        /\ steps = <<>>
        /\ ret = None

\* The coefficient arrays of the calls: the first and the last unit vector
\* and the array of ones.
LifeArrays(n) == {unit(n, 0), unit(n, n - 1), [j \in 1..n |-> One]}

\* The output_array argument of to_ortho: None, or an array of the caller's
\* (id -1) that holds zeros or ones.
OutputArrays(n) ==
    {None} \cup {[kind |-> "array", id |-> -1, val |-> v] :
                    v \in {zeros_like(n), [j \in 1..n |-> One]}}

ToOrthoInto ==
    \E input_array \in LifeArrays(basis.N),
       output_array \in OutputArrays(basis.N) :
        LET r == to_ortho(basis, input_array, output_array) IN
        /\ call' = [op |-> "to_ortho", input_array |-> input_array,
                    output_array |-> output_array]
        /\ basis' = r.b
        /\ ret' = r.ret
        /\ steps' = r.steps
        /\ UNCHANGED <<nalloc, nplan>>

Eval ==
    \E xs \in Meshes(basis), u \in LifeArrays(basis.N) :
        LET r == eval(basis, xs, u) IN
        /\ call' = [op |-> "eval", x |-> xs, u |-> u]
        /\ basis' = r.b
        /\ ret' = r.ret
        /\ steps' = r.steps
        /\ UNCHANGED <<nalloc, nplan>>

\* set_factor_array(v) / set_factor_arrays(v) of the Legendre Shen bases
set_factor_array(b, st, v) ==
    CASE b.cls = "legendre.ShenDirichletBasis" -> ShenDirichletBasis_set_factor_array(b, st, v)
      [] b.cls = "legendre.ShenNeumannBasis" -> ShenNeumannBasis_set_factor_array(b, st, v)
      [] b.cls = "legendre.ShenBiharmonicBasis" -> ShenBiharmonicBasis_set_factor_arrays(b, st, v)

SetFactorArray ==
    /\ basis.cls \in LegendreShen
    /\ \E v \in LifeArrays(basis.N) :
        LET r == set_factor_array(basis, [mem |-> <<>>, steps |-> <<>>], v) IN
        /\ call' = [op |-> "set_factor_array", v |-> v]
        /\ basis' = r.b
        /\ ret' = None
        /\ steps' = r.st.steps
        /\ UNCHANGED <<nalloc, nplan>>

\* plan with the one-dimensional shapes, as an int and as a tuple
Replan ==
    /\ nplan < MaxReplans
    /\ \E sh \in {PyInt(shape(basis, FALSE)), PyTuple(<<shape(basis, FALSE)>>)},
          dtype \in {"float"} :
        LET r == plan(basis, nalloc, sh, PyInt(0), dtype) IN
        /\ call' = [op |-> "plan", shape |-> sh, axis |-> PyInt(0), dtype |-> dtype]
        /\ basis' = r.b
        /\ nalloc' = r.n
        /\ nplan' = nplan + 1
        /\ ret' = None
        /\ steps' = <<>>

\* The object a call returns
Object(b) == [kind |-> "basis", obj |-> b]

\* LaguerreBase.get_refined with the receiver resized in place
LaguerreBase_get_refined_in_place(b, n, N) ==
    [self |-> [b EXCEPT !.N = N],
     ret |-> Object(init(b.cls, N, b.quad, b.ph, FALSE, bc_default(b.cls),
                         <<0, 1>>, n).b)]

\* LaguerreBase.get_refined(N): self.__class__(N, quad, padding_factor, ...);
\* the receiver as the call leaves it, and the object returned
LaguerreBase_get_refined(b, n, N) ==
    [self |-> b,
     ret |-> Object(init(b.cls, N, b.quad, b.ph, FALSE, bc_default(b.cls),
                         <<0, 1>>, n).b)]

\* LaguerreBase.get_dealiased(padding_factor)
LaguerreBase_get_dealiased(b, n, ph) ==
    [self |-> b,
     ret |-> Object(init(b.cls, b.N, b.quad, ph, FALSE, bc_default(b.cls),
                         <<0, 1>>, n).b)]

\* legendre ShenDirichletBasis.get_dealiased(padding_factor): scaled is not
\* handed on
ShenDirichletBasis_get_dealiased(b, n, ph) ==
    [self |-> b,
     ret |-> Object(init("legendre.ShenDirichletBasis", b.N, b.quad, ph, FALSE, b.bc,
                         <<0, 1>>, n).b)]

\* get_orthogonal(): Basis(self.N, quad=self.quad) of the family; the
\* Laguerre Basis returns itself
get_orthogonal(b, n) ==
    [self |-> b,
     ret |-> IF b.cls = "laguerre.Basis" THEN Object(b)
             ELSE Object(init(IF family(b) = "laguerre" THEN "laguerre.Basis"
                              ELSE "legendre.Basis",
                              b.N, b.quad, 2, FALSE, <<>>, <<0, 1>>, n).b)]

\* The receiver and the value a call r leaves.
Returned(r) ==
    /\ basis' = r.self
    /\ ret' = r.ret

GetRefined ==
    /\ family(basis) = "laguerre"
    /\ \E N \in {basis.N + 1, basis.N + 2} :
        /\ call' = [op |-> "get_refined", N |-> N]
        /\ Returned(LaguerreBase_get_refined(basis, nalloc, N))
        /\ steps' = <<>>
        /\ UNCHANGED <<nalloc, nplan>>

GetDealiased ==
    /\ basis.cls \in {"legendre.ShenDirichletBasis", "laguerre.ShenDirichletBasis"}
    /\ \E ph \in PaddingHalves :
        /\ call' = [op |-> "get_dealiased", padding_factor |-> ph]
        /\ Returned(IF family(basis) = "laguerre"
                    THEN LaguerreBase_get_dealiased(basis, nalloc, ph)
                    ELSE ShenDirichletBasis_get_dealiased(basis, nalloc, ph))
        /\ steps' = <<>>
        /\ UNCHANGED <<nalloc, nplan>>

GetOrthogonal ==
    /\ call' = [op |-> "get_orthogonal"]
    /\ Returned(get_orthogonal(basis, nalloc))
    /\ steps' = <<>>
    /\ UNCHANGED <<nalloc, nplan>>

NextLife ==
    \/ ToOrthoInto \/ Eval \/ SetFactorArray \/ Replan \/ Forward
    \/ GetRefined \/ GetDealiased \/ GetOrthogonal

SpecLife == InitLife /\ [][NextLife]_vars

(***************************************************************************)
(* Construction with any quadrature tag and boundary tuple, and the calls  *)
(* that depend on the tag and on the derivative order.                     *)
(***************************************************************************)
MaxOrder == 3

Quads == {"LG", "GL", "GC"}
BCTuples == {<<0, 0>>, <<0, 0, 0, 0>>}

\* BoundaryValues(self, bc=bc): the number of boundary values must be the
\* one of the variant.
BoundaryValues_accepts(cls, bc) ==
    Len(bc) = IF cls = "legendre.ShenBiharmonicBasis" THEN 4 ELSE 2

\* cls(N, quad=quad, bc=bc, ...): the object, or the error of the
\* constructor.  The Legendre Dirichlet and biharmonic constructors build
\* BoundaryValues(self, bc=bc); the Laguerre constructor does nothing with bc.
new_object(c) == [b |-> c.b, ret |-> Object(c.b)]

new(cls, N, quad, ph, scaled, bc, mean) ==
    IF cls \in {"legendre.ShenDirichletBasis", "legendre.ShenBiharmonicBasis"}
       /\ ~BoundaryValues_accepts(cls, bc)
    THEN [b |-> None, ret |-> Raise("BoundaryArityMismatch")]
    ELSE new_object(init(cls, N, quad, ph, scaled, bc, mean, 0))

\* The classes whose constructor has a bc parameter
WithBC ==
    {"legendre.ShenDirichletBasis", "legendre.ShenBiharmonicBasis",
     "laguerre.ShenDirichletBasis"}

\* What a constructor call r leaves: the object or None, what it returned or
\* raised, and the number of arrays allocated.
ConstructedOrFailed(r) ==
    /\ basis = r.b
    /\ ret = r.ret
    /\ nalloc = IF r.b = None THEN 0 ELSE Cardinality(Ids(BasisArrays(r.b)))

InitNew ==
    \E cls \in Classes, N \in Ns, quad \in Quads, ph \in PaddingHalves,
       scaled \in BOOLEAN, bc \in BCTuples \cup {<<>>}, quad_given \in BOOLEAN :
        \* without the keyword quad the constructor's default applies
        /\ ~quad_given => /\ quad = quad_default(cls)
                          /\ ph = 2 /\ ~scaled
                          /\ cls \in WithBC => bc = bc_default(cls)
        /\ scaled => cls \in {"legendre.ShenDirichletBasis", "legendre.BCBasis"}
        /\ ph # 2 => cls # "legendre.BCBasis"
        /\ bc # <<>> <=> cls \in WithBC
        \* a tag other than LG, or a tuple other than the default one, comes
        \* with the defaults of the other arguments
        /\ (quad # "LG" \/ (cls \in WithBC /\ bc # bc_default(cls)))
              => ph = 2 /\ ~scaled
        /\ quad # "LG" /\ cls \in WithBC => bc = bc_default(cls)
        /\ ConstructedOrFailed(new(cls, N, quad, ph, scaled, bc, <<0, 1>>))
        /\ nplan = 0
        /\ call = [op |-> "__init__", cls |-> cls, N |-> N, quad |-> quad,
                   quad_given |-> quad_given,
                   padding_factor |-> ph, scaled |-> scaled, bc |-> bc]
        /\ steps = <<>>

\* What points_and_weights returns: the nodes and weights of a rule for N
\* points, the weights multiplied by exp(points) or not.
Quadrature(rule, N, times_exp) ==
    [kind |-> "tuple", points |-> [rule |-> rule, N |-> N],
     weights |-> [rule |-> rule, N |-> N, times_exp |-> times_exp]]

\* LegendreBase.points_and_weights with leggauss for every tag but GL
LegendreBase_points_and_weights_default(b, weighted) ==
    [self |-> b,
     ret |-> IF b.quad = "GL"
             THEN Quadrature("legendre_lobatto_nodes_and_weights", b.N, FALSE)
             ELSE Quadrature("leggauss", b.N, FALSE)]

\* LegendreBase.points_and_weights (N None, map_true_domain False): the
\* receiver as the call leaves it, and what it returns or raises
LegendreBase_points_and_weights(b, weighted) ==
    [self |-> b,
     ret |-> IF b.quad = "LG" THEN Quadrature("leggauss", b.N, FALSE)
             ELSE IF b.quad = "GL"
             THEN Quadrature("legendre_lobatto_nodes_and_weights", b.N, FALSE)
             ELSE Raise("NotImplementedError")]

\* LaguerreBase.points_and_weights
LaguerreBase_points_and_weights(b, weighted) ==
    [self |-> b,
     ret |-> IF b.quad = "LG" THEN Quadrature("laggauss", b.N, weighted)
             ELSE Raise("NotImplementedError")]

PointsAndWeights ==
    /\ basis # None
    /\ \E weighted \in BOOLEAN :
        LET r == IF family(basis) = "laguerre"
                 THEN LaguerreBase_points_and_weights(basis, weighted)
                 ELSE LegendreBase_points_and_weights(basis, weighted) IN
        /\ call' = [op |-> "points_and_weights", weighted |-> weighted]
        /\ basis' = r.self
        /\ ret' = r.ret
        /\ steps' = <<>>
        /\ UNCHANGED <<nalloc, nplan>>

\* One differentiation in numpy.polynomial.legendre.legder: for j = n..3,
\* der[j-1] = (2j-1)*c[j] and c[j-2] += c[j] (indices from 0)
RECURSIVE legder_loop(_, _, _)
legder_loop(c, der, j) ==
    IF j <= 2 THEN [c |-> c, der |-> der]
    ELSE legder_loop([c EXCEPT ![j - 1] = QAdd(@, c[j + 1])],
                     [der EXCEPT ![j] = QMul(<<2 * j - 1, 1>>, c[j + 1])], j - 1)

\* numpy.polynomial.legendre.legder(c, m) of a coefficient vector
RECURSIVE legder(_, _)
legder(c, m) ==
    IF m = 0 THEN c
    ELSE IF m >= Len(c) THEN << <<0, 1>> >>
    ELSE LET n == Len(c) - 1
             r == legder_loop(c, [i \in 1..n |-> <<0, 1>>], n)
         IN legder([i \in 1..n |-> IF i = 1 THEN r.c[2]
                                   ELSE IF i = 2 THEN QMul(<<3, 1>>, r.c[3])
                                   ELSE r.der[i]], m - 1)

\* One differentiation in numpy.polynomial.laguerre.lagder: for j = n..2,
\* der[j-1] = -c[j] and c[j-1] += c[j]
RECURSIVE lagder_loop(_, _, _)
lagder_loop(c, der, j) ==
    IF j <= 1 THEN [c |-> c, der |-> der]
    ELSE lagder_loop([c EXCEPT ![j] = QAdd(@, c[j + 1])],
                     [der EXCEPT ![j] = QMul(<<-1, 1>>, c[j + 1])], j - 1)

\* numpy.polynomial.laguerre.lagder(c, m)
RECURSIVE lagder(_, _)
lagder(c, m) ==
    IF m = 0 THEN c
    ELSE IF m >= Len(c) THEN << <<0, 1>> >>
    ELSE LET n == Len(c) - 1
             r == lagder_loop(c, [i \in 1..n |-> <<0, 1>>], n)
         IN lagder([i \in 1..n |-> IF i = 1 THEN QMul(<<-1, 1>>, r.c[2]) ELSE r.der[i]],
                   m - 1)

\* Column j of D, where D = np.zeros((M, N)); D[:-k] = der(np.eye(M, N), k)
\* for the family's der (laguerre TRUE: lagder)
derivative_column(M, j, k, laguerre) ==
    LET e == [i \in 1..M |-> IF i = j THEN <<1, 1>> ELSE <<0, 1>>]
        c == IF laguerre THEN lagder(e, k) ELSE legder(e, k)
    IN [i \in 1..M |-> IF k < M /\ i <= M - k THEN c[i] ELSE <<0, 1>>]

\* np.dot(V, D) for that D
dot_derivative(V, M, N, k, laguerre) ==
    [p \in 1..Len(V) |-> [j \in 1..N |->
        dot(derivative_column(M, j, k, laguerre), V[p], 1)]]

\* LegendreBase.evaluate_basis_derivative_all(x, k, argument).
\* ShenNeumannBasis.
\* _composite_basis asserts N == V.shape[1], and the scaled Dirichlet one
\* divides N-2 columns by np.sqrt(4*k+6) of length N-2.
LegendreBase_evaluate_basis_derivative_all(b, xs, k, argument) ==
    LET V == vandermonde(b, xs)
        N == shape(b, FALSE)
        M == shape(b, TRUE)
        W == IF k > 0 THEN dot_derivative(V, M, N, k, FALSE) ELSE V
    IN IF b.cls = "legendre.ShenNeumannBasis" /\ ncols(W) # b.N
       THEN Raise("AssertionError")
       ELSE IF b.cls = "legendre.ShenDirichletBasis" /\ b.scaled /\ ncols(W) # b.N
       THEN Raise("ValueError")
       ELSE Array(composite_basis(b, W, argument))

\* LaguerreBase.evaluate_basis_derivative_all(x, k)
LaguerreBase_evaluate_basis_derivative_all(b, xs, k, argument) ==
    LET V == vandermonde(b, xs)
        M == ncols(V)
        W1 == dot_derivative(V, M, M, 1, TRUE)
        W2 == dot_derivative(V, M, M, 2, TRUE)
        \* k = 1: W = V.D1 - 0.5*V
        \* k = 2: D[:-2, :] = lagder(eye, 2); D[:-1, :] -= lagder(eye, 1);
        \*        W = V.D + 0.25*V
        W == [p \in 1..Len(V) |-> [j \in 1..M |->
                 IF k = 1 THEN Sub(W1[p][j], Scale(<<1, 2>>, V[p][j]))
                 ELSE IF k = 2
                 THEN Add(Sub(W2[p][j], W1[p][j]), Scale(<<1, 4>>, V[p][j]))
                 ELSE V[p][j]]]
    IN IF k \notin {0, 1, 2} THEN Raise("NotImplementedError")
       ELSE Array(composite_basis(b,
                [p \in 1..Len(V) |-> [j \in 1..M |-> MulExp(W[p][j], xs[p][1])]],
                argument))

EvaluateBasisDerivativeAll ==
    /\ basis # None
    /\ basis.cls \notin LegendreBC
    /\ \E xs \in Meshes(basis), k \in 0..MaxOrder :
        /\ call' = [op |-> "evaluate_basis_derivative_all", x |-> xs, k |-> k]
        /\ ret' = IF family(basis) = "laguerre"
                  THEN LaguerreBase_evaluate_basis_derivative_all(basis, xs, k, 0)
                  ELSE LegendreBase_evaluate_basis_derivative_all(basis, xs, k, 0)
        /\ steps' = <<>>
        /\ UNCHANGED <<basis, nalloc, nplan>>

\* legendre ShenDirichletBasis.get_bc_basis():
\* BCBasis(self.N, quad=self.quad, domain=self.domain, scaled=self._scaled)
ShenDirichletBasis_get_bc_basis(b, n) ==
    [self |-> b,
     ret |-> Object(init("legendre.BCBasis", b.N, b.quad, 2, b.scaled, <<>>,
                         <<0, 1>>, n).b)]

\* ShenBiharmonicBasis.get_bc_basis():
\* BCBiharmonicBasis(self.N, quad=self.quad, domain=self.domain)
ShenBiharmonicBasis_get_bc_basis(b, n) ==
    [self |-> b,
     ret |-> Object(init("legendre.BCBiharmonicBasis", b.N, b.quad, 2, FALSE, <<>>,
                         <<0, 1>>, n).b)]

GetBcBasis ==
    /\ basis # None
    /\ basis.cls \in {"legendre.ShenDirichletBasis", "legendre.ShenBiharmonicBasis"}
    /\ call' = [op |-> "get_bc_basis"]
    /\ Returned(IF basis.cls = "legendre.ShenDirichletBasis"
                THEN ShenDirichletBasis_get_bc_basis(basis, nalloc)
                ELSE ShenBiharmonicBasis_get_bc_basis(basis, nalloc))
    /\ steps' = <<>>
    /\ UNCHANGED <<nalloc, nplan>>

NextNew == PointsAndWeights \/ EvaluateBasisDerivativeAll \/ GetBcBasis

SpecNew == InitNew /\ [][NextNew]_vars

(***************************************************************************)
(* The boundary-lift functions: a Legendre Dirichlet or biharmonic basis,  *)
(* or one of the two boundary bases, is constructed, and its basis         *)
(* functions and their first derivatives are evaluated at the endpoints    *)
(* and at interior points, through evaluate_basis_derivative_all,          *)
(* BCBasis.sympy_basis and ShenDirichletBasis.eval.                        *)
(***************************************************************************)
LiftClasses ==
    {"legendre.ShenDirichletBasis", "legendre.ShenBiharmonicBasis",
     "legendre.BCBasis", "legendre.BCBiharmonicBasis"}

InitLift ==
    \E cls \in LiftClasses, N \in Ns, scaled \in BOOLEAN :
        /\ scaled => cls \in {"legendre.ShenDirichletBasis", "legendre.BCBasis"}
        /\ Constructed(init(cls, N, "LG", 2, scaled, bc_default(cls), <<0, 1>>, 0))
        /\ nplan = 0
        /\ call = ctor_call(N, 2)
        /\ steps = <<>>
        /\ ret = None

\* BCBasis.sympy_basis(i) as a function of x, at the points xs
BCBasis_sympy_basis(i, xs) ==
    IF i = 0
    THEN Array([p \in 1..Len(xs) |-> Rational(QMul(<<1, 2>>, QSub(<<1, 1>>, xs[p])))])
    ELSE IF i = 1
    THEN Array([p \in 1..Len(xs) |-> Rational(QMul(<<1, 2>>, QAdd(<<1, 1>>, xs[p])))])
    ELSE Raise("AttributeError")

EvaluateLift ==
    \E xs \in LegendreMeshes, k \in {0, 1}, argument \in {0, 1} :
        /\ call' = [op |-> "evaluate_basis_derivative_all", x |-> xs, k |-> k,
                    argument |-> argument]
        /\ ret' = LegendreBase_evaluate_basis_derivative_all(basis, xs, k, argument)
        /\ steps' = <<>>
        /\ UNCHANGED <<basis, nalloc, nplan>>

SympyBasis ==
    /\ basis.cls = "legendre.BCBasis"
    /\ \E xs \in LegendreMeshes, i \in 0..2 :
        /\ call' = [op |-> "sympy_basis", i |-> i, x |-> xs]
        /\ ret' = BCBasis_sympy_basis(i, xs)
        /\ steps' = <<>>
        /\ UNCHANGED <<basis, nalloc, nplan>>

\* The object, the value and the collaborator calls an eval call r leaves.
Evaluated(r) ==
    /\ basis' = r.b
    /\ ret' = r.ret
    /\ steps' = r.steps

\* The coefficient arrays with one trailing slot set, and the array of ones.
LiftArrays(n) == {unit(n, n - 2), unit(n, n - 1), [j \in 1..n |-> One]}

EvalLift ==
    /\ basis.cls = "legendre.ShenDirichletBasis"
    /\ \E xs \in LegendreMeshes, u \in LiftArrays(basis.N) :
        /\ call' = [op |-> "eval", x |-> xs, u |-> u]
        /\ Evaluated(ShenDirichletBasis_eval(basis, xs, u))
        /\ UNCHANGED <<nalloc, nplan>>

NextLift == EvaluateLift \/ SympyBasis \/ EvalLift

SpecLift == InitLift /\ [][NextLift]_vars

(***************************************************************************)
(* Properties of the operations (specification Spec).                      *)
(***************************************************************************)
Interior(i) == i < basis.N - lift_slots(basis)

\* C5: for a primary Vandermonde matrix V with N columns and argument = 0,
\* _composite_basis returns P with P[k] = V[k] - V[k+2] (divided by
\* sqrt(4k+6) when scaled) for Legendre Dirichlet, P[k] = V[k] -
\* k(k+1)/((k+2)(k+3)) V[k+2] for Neumann, P[k] = V[k] - 2(2k+5)/(2k+7) V[k+2]
\* + (2k+3)/(2k+7) V[k+4] for biharmonic and P[k] = V[k] - V[k+1] for
\* Laguerre Dirichlet, k an interior mode, and every trailing boundary-lift
\* column (the last 2, 2, 4, 1) is zero.
C5_CompositeBasisFormulas ==
    (call.op = "_composite_basis" /\ call.argument = 0) =>
        LET V == call.V
            P == ret.val
            cls == basis.cls
        IN /\ ret.kind = "array"
           /\ \A r \in 1..Len(V) : \A k \in 0..(ncols(V) - 1) :
                P[r][k + 1] =
                  CASE cls = "legendre.ShenDirichletBasis" /\ k <= ncols(V) - 3 ->
                         IF basis.scaled
                         THEN DivSqrt(Sub(V[r][k + 1], V[r][k + 3]), 4 * k + 6)
                         ELSE Sub(V[r][k + 1], V[r][k + 3])
                    [] cls = "legendre.ShenNeumannBasis" /\ k <= ncols(V) - 3 ->
                         Sub(V[r][k + 1],
                             Scale(Q(k * (k + 1), (k + 2) * (k + 3)), V[r][k + 3]))
                    [] cls = "legendre.ShenBiharmonicBasis" /\ k <= ncols(V) - 5 ->
                         Add(Sub(V[r][k + 1],
                                 Scale(Q(2 * (2 * k + 5), 2 * k + 7), V[r][k + 3])),
                             Scale(Q(2 * k + 3, 2 * k + 7), V[r][k + 5]))
                    [] cls = "laguerre.ShenDirichletBasis" /\ k <= ncols(V) - 2 ->
                         Sub(V[r][k + 1], V[r][k + 2])
                    [] OTHER -> Zero

C5_Witness ==
    /\ call.op = "_composite_basis" /\ call.argument = 0
    /\ basis.cls = "legendre.ShenBiharmonicBasis"
    /\ ncols(call.V) = basis.N
    /\ \E r \in 1..Len(call.V) : ret.val[r][1] # Zero /\ ret.val[r][basis.N - 3] = Zero

\* The positions of the boundary points among the points of the last call:
\* x = -1 and x = +1 for Legendre, x = 0 for Laguerre.
EndpointPositions ==
    {p \in 1..Len(call.x) :
        call.x[p] \in IF family(basis) = "laguerre" THEN {<<0, 1>>}
                      ELSE {<<-1, 1>>, <<1, 1>>}}

ValueCall ==
    \/ call.op = "evaluate_basis"
    \/ call.op = "evaluate_basis_derivative" /\ call.k = 0
DerivativeCall == call.op = "evaluate_basis_derivative" /\ call.k = 1

\* C6 as stated: every interior composite basis function of the Dirichlet,
\* Neumann and biharmonic Legendre variants has value 0 at x = -1 and x = +1,
\* the biharmonic ones also first derivative 0 there, and every interior
\* Laguerre Dirichlet function has value 0 at x = 0.
C6_ValueVanishesAtEndpoints ==
    ((ValueCall \/ DerivativeCall) /\ Interior(call.i)) =>
        /\ ret.kind = "array"
        /\ \A p \in EndpointPositions :
              /\ ValueCall => ret.val[p] = Zero
              /\ (DerivativeCall /\ basis.cls = "legendre.ShenBiharmonicBasis")
                    => ret.val[p] = Zero

\* C6 as amended: every interior composite basis function of the Dirichlet
\* and biharmonic Legendre variants has value 0 at x = -1 and x = +1, the
\* biharmonic ones also first derivative 0 there; every interior Neumann
\* function has first derivative 0 (not value 0) at x = -1 and x = +1; every
\* interior Laguerre Dirichlet function has value 0 at x = 0.
C6_BoundaryConditionsAtEndpoints ==
    ((ValueCall \/ DerivativeCall) /\ Interior(call.i)) =>
        /\ ret.kind = "array"
        /\ \A p \in EndpointPositions :
              /\ (ValueCall /\ basis.cls # "legendre.ShenNeumannBasis")
                    => ret.val[p] = Zero
              /\ (DerivativeCall /\ basis.cls \in {"legendre.ShenNeumannBasis",
                                                   "legendre.ShenBiharmonicBasis"})
                    => ret.val[p] = Zero

C6_Witness ==
    /\ DerivativeCall /\ Interior(call.i) /\ call.i > 0
    /\ basis.cls = "legendre.ShenNeumannBasis"
    /\ EndpointPositions = {1, 2}
    /\ ret.kind = "array" /\ ret.val[1] = Zero /\ ret.val[2] = Zero


\* The identity as a primary Vandermonde matrix: _composite_basis of it has
\* in row j, column k the coefficient of orthogonal mode j in composite mode k.
eye(n) == [r \in 1..n |-> [c \in 1..n |-> IF r = c THEN One ELSE Zero]]

\* The series with orthogonal coefficients c at the point x
orthogonal_series(c, x) ==
    IF family(basis) = "laguerre" THEN MulExp(lagval(x, c), x[1]) ELSE legval(x, c)

\* C7: for every Shen variant and interior mode k, to_ortho of the unit
\* vector e_k (no output_array) is the vector of the recurrence coefficients
\* _composite_basis uses for mode k, nonzero only at k, k+2, k+4 (k, k+1 for
\* Laguerre), and its series evaluates to what evaluate_basis gives for k.
C7_ToOrthoOfUnitVector ==
    \A k \in 0..(basis.N - 1) :
        (call.op = "to_ortho" /\ Interior(k) /\ call.input_array = unit(basis.N, k)) =>
            /\ ret.kind = "array"
            /\ \A j \in 1..basis.N :
                  /\ ret.val[j] = composite_basis(basis, eye(basis.N), 0)[j][k + 1]
                  /\ ret.val[j] # Zero =>
                        j - 1 \in IF family(basis) = "laguerre" THEN {k, k + 1}
                                  ELSE {k, k + 2, k + 4}
            /\ \A xs \in Meshes(basis) : \A p \in 1..Len(xs) :
                  orthogonal_series(ret.val, xs[p]) = evaluate_basis(basis, <<xs[p]>>, k).val[1]

C7_Witness ==
    /\ call.op = "to_ortho"
    /\ basis.cls = "legendre.ShenBiharmonicBasis"
    /\ call.input_array = unit(basis.N, 0)
    /\ ret.val[1] = One /\ ret.val[3] # Zero /\ ret.val[5] # Zero
    /\ ret.val[3] # ret.val[5]

\* C8: evaluate_basis at an index at or beyond the interior range of a
\* Legendre or Laguerre ShenDirichletBasis (i = N-1, N-2, or i = N-1 for
\* Laguerre) raises an error and returns no array.
C8_EvaluateBeyondInteriorRaises ==
    (/\ call.op = "evaluate_basis"
     /\ basis.cls \in {"legendre.ShenDirichletBasis", "laguerre.ShenDirichletBasis"}
     /\ ~Interior(call.i)) => ret.kind = "error"

IsMassStep(s) == s.fn \in {"scalar_product", "add_mass_rhs", "apply_inverse_mass"}

\* C9: in every forward transform of a Legendre ShenDirichletBasis or
\* ShenBiharmonicBasis the scalar product, add_mass_rhs and
\* apply_inverse_mass are each called once, in this order, all on the
\* temporary array of the scalar product.
C9_ForwardStepOrder ==
    (/\ call.op = "forward"
     /\ basis.cls \in {"legendre.ShenDirichletBasis", "legendre.ShenBiharmonicBasis"}) =>
        LET t == basis.scalar_product.tmp_array.id IN
        SelectSeq(steps, IsMassStep) =
            << [fn |-> "scalar_product", array |-> t],
               [fn |-> "add_mass_rhs", array |-> t],
               [fn |-> "apply_inverse_mass", array |-> t] >>

C9_Witness ==
    /\ call.op = "forward"
    /\ basis.cls = "legendre.ShenDirichletBasis"
    /\ padding_active(basis)
    /\ Len(steps) = 5
    /\ \E j \in 1..Len(ret.val) : ret.val[j] # Zero

\* C10: the coefficient array a forward transform of a Legendre
\* ShenDirichletBasis (K=2) or ShenBiharmonicBasis (K=4) with zero boundary
\* values returns has its trailing K slots equal to zero, for every input,
\* with padding_factor = 1 and with padding_factor > 1.
C10_TrailingSlotsZero ==
    (/\ call.op = "forward"
     /\ basis.cls \in {"legendre.ShenDirichletBasis", "legendre.ShenBiharmonicBasis"}) =>
        \A j \in 1..Len(ret.val) :
            j > Len(ret.val) - lift_slots(basis) => ret.val[j] = Zero

\* C11: after a forward transform on a Legendre ShenNeumannBasis constructed
\* with mean m, mode 0 of the returned coefficients equals m*pi whatever the
\* input array was.
C11_ForwardModeZeroIsMeanPi ==
    (call.op = "forward" /\ basis.cls = "legendre.ShenNeumannBasis") =>
        ret.val[1] = Scale(basis.mean, Pi)

(***************************************************************************)
(* Properties of the life of a basis (specification SpecLife).             *)
(***************************************************************************)
\* The steps of a to_ortho call that act on its output array
ArraySteps == {i \in 1..Len(steps) : steps[i].fn # "wavenumbers"}
LiftSteps == {i \in ArraySteps : steps[i].fn = "add_to_orthogonal"}

\* C12: in to_ortho of the Legendre Dirichlet and biharmonic bases
\* add_to_orthogonal is called exactly once, on the output array the
\* polynomial writes went to (the caller's when one was given), after all of
\* them; no polynomial write follows it.
C12_LiftAddedOnceAfterWrites ==
    (/\ call.op = "to_ortho"
     /\ basis.cls \in {"legendre.ShenDirichletBasis", "legendre.ShenBiharmonicBasis"}) =>
        /\ Cardinality(LiftSteps) = 1
        /\ ArraySteps \ LiftSteps # {}
        /\ \A i \in ArraySteps :
              /\ steps[i].array = ret.id
              /\ i \notin LiftSteps => \A a \in LiftSteps : i < a
        /\ {steps[i].fn : i \in ArraySteps \ LiftSteps} =
              IF basis.cls = "legendre.ShenDirichletBasis"
              THEN {"output_array[s0] =", "output_array[s1] -="} ELSE {"set_w_hat"}
        /\ call.output_array # None => ret.id = call.output_array.id

C12_Witness ==
    /\ call.op = "to_ortho"
    /\ basis.cls = "legendre.ShenDirichletBasis"
    /\ call.output_array # None
    /\ Len(steps) = 3 /\ steps[3].fn = "add_to_orthogonal"
    /\ ret.val[1] # Zero

\* C13: no step changes the mode count N of the basis; get_refined and
\* get_dealiased return an instance that shares no buffer with the receiver
\* and carries the requested size or padding, and leave the receiver (its
\* N, padding factor and buffers) as it was.
C13_ModeCountFixed ==
    [][/\ basis'.N = basis.N
       /\ call'.op \in {"get_refined", "get_dealiased"} =>
            /\ ret'.kind = "basis"
            /\ Ids(BasisArrays(ret'.obj)) \cap Ids(BasisArrays(basis)) = {}
            /\ ret'.obj.cls = basis.cls
            /\ call'.op = "get_refined" =>
                  ret'.obj.N = call'.N /\ ret'.obj.ph = basis.ph
            /\ call'.op = "get_dealiased" =>
                  ret'.obj.N = basis.N /\ ret'.obj.ph = call'.padding_factor
            /\ basis' = basis]_vars

C13_Witness ==
    /\ call.op = "get_refined"
    /\ nplan = 1
    /\ ret.kind = "basis"
    /\ ret.obj.N = basis.N + 1
    /\ Len(ret.obj.forward.input_array.shape.val) = 1
    /\ ret.obj.forward.input_array.shape.val[1] = basis.N + 1

\* C17: a call that needs the recurrence factors does not compute them again
\* when they were computed before for an array of the same shape (all the
\* coefficient arrays of a basis here have the shape (N,)).
FactorComputed(b) ==
    \/ b.cls \in {"legendre.ShenDirichletBasis", "legendre.ShenNeumannBasis"}
       /\ Len(b._factor) = b.N - 2
    \/ b.cls = "legendre.ShenBiharmonicBasis" /\ Len(b._factor1) = b.N - 4

C17_FactorReusedForSameShape ==
    [][(FactorComputed(basis) /\ call'.op \in {"set_factor_array", "to_ortho", "eval"})
          => \A i \in 1..Len(steps') : steps'[i].fn # "wavenumbers"]_vars

\* C19: eval(x, u) equals the series of the primary family with the
\* coefficients to_ortho(u), at every point of x and for every coefficient
\* array u, the trailing slots of u included.
C19_EvalAgreesWithToOrtho ==
    call.op = "eval" =>
        \A p \in 1..Len(call.x) :
            ret.val[p] = orthogonal_series(to_ortho(basis, call.u, None).ret.val, call.x[p])

\* C20: to_ortho returns the same coefficients whatever the output array
\* held before the call, namely those it returns without an output array.
C20_ToOrthoIgnoresPriorContent ==
    call.op = "to_ortho" =>
        ret.val = to_ortho(basis, call.input_array, None).ret.val

(***************************************************************************)
(* Properties of construction and of the calls that depend on the          *)
(* quadrature tag and the derivative order (specification SpecNew).        *)
(***************************************************************************)
RecognisedQuads(b) == IF family(b) = "laguerre" THEN {"LG"} ELSE {"LG", "GL"}

C15_DerivativeOrderSupport ==
    call.op = "evaluate_basis_derivative_all" =>
        IF family(basis) = "laguerre"
        THEN /\ call.k > 2 => ret = Raise("NotImplementedError")
             /\ call.k <= 2 => ret.kind = "array"
        ELSE ret.kind = "array"

\* C16: a constructor called with a boundary tuple whose length is not the
\* one of the variant (2 for the Dirichlet bases of both families, 4 for
\* the biharmonic basis) fails and produces no basis.
C16_WrongArityFails ==
    (/\ call.op = "__init__"
     /\ call.cls \in WithBC
     /\ Len(call.bc) # IF call.cls = "legendre.ShenBiharmonicBasis" THEN 4 ELSE 2) =>
        ret.kind = "error" /\ basis = None

(***************************************************************************)
(* Properties of the derived bases (specification SpecLife).               *)
(***************************************************************************)
\* C21: the basis get_dealiased returns has the N, the quadrature tag, the
\* boundary values and the scaled flag of the receiver, and the basis
\* get_refined returns has its quadrature tag and its padding factor.
C21_DerivedBasisKeepsParameters ==
    /\ call.op = "get_dealiased" =>
          /\ ret.obj.N = basis.N
          /\ ret.obj.quad = basis.quad
          /\ ret.obj.bc = basis.bc
          /\ ret.obj.scaled = basis.scaled
    /\ call.op = "get_refined" =>
          /\ ret.obj.quad = basis.quad
          /\ ret.obj.ph = basis.ph

(***************************************************************************)
(* Properties of the nested orthogonal basis (specification SpecPlan).     *)
(***************************************************************************)
\* C22: after its construction and after every plan call, a Shen basis and
\* its nested basis LT are planned for the same shape and axis, the input
\* array and the padded output array of the Shen basis' forward transform
\* are the arrays LT's forward transform has now (the same identities), and
\* every array of the two was allocated by this basis' own constructor and
\* plan calls.
C22_ShenSharesCurrentLTBuffers ==
    basis.cls \in ShenClasses =>
        /\ isTransform(basis.forward) /\ isTransform(basis.LT.forward)
        /\ basis.LT.axis = basis.axis
        /\ basis.LT.forward.input_array.shape = basis.forward.input_array.shape
        /\ basis.forward.input_array = basis.LT.forward.input_array
        /\ basis.forward.tmp_array = basis.LT.forward.output_array
        /\ basis.scalar_product.input_array = basis.LT.forward.input_array
        /\ basis.backward.output_array = basis.LT.forward.input_array
        /\ Ids(BasisArrays(basis) \cup BasisArrays(basis.LT)) \subseteq 1..nalloc

C22_Witness ==
    /\ basis.cls \in ShenClasses
    /\ call.op = "plan"
    /\ nplan >= 2
    /\ padding_active(basis)
    /\ basis.axis = 1
    /\ basis.LT.forward.input_array.id > 6

(***************************************************************************)
(* Properties of the quadrature tag a basis carries (specification         *)
(* SpecNew).                                                               *)
(***************************************************************************)
\* points_and_weights of the basis b returns points and weights
HasQuadrature(b) ==
    (IF family(b) = "laguerre" THEN LaguerreBase_points_and_weights(b, FALSE)
     ELSE LegendreBase_points_and_weights(b, FALSE)).ret.kind = "tuple"

\* C23: points_and_weights returns points and weights on every basis
\* constructed without the keyword quad, whatever its class, and on every
\* basis get_bc_basis returns when it does on the receiver.
C23_DefaultTagHasQuadrature ==
    /\ (call.op = "__init__" /\ ~call.quad_given /\ basis # None) => HasQuadrature(basis)
    /\ (call.op = "get_bc_basis" /\ HasQuadrature(basis)) => HasQuadrature(ret.obj)

(***************************************************************************)
(* Properties of the boundary-lift functions (specification SpecLift).     *)
(***************************************************************************)
LiftEndpoints == << <<-1, 1>>, <<1, 1>> >>

Delta(c, d) == IF c = d THEN One ELSE Zero

\* The number of lift functions of the basis, and the columns before them.
LiftCount(b) == IF b.cls \in LegendreBC THEN shape(b, TRUE) ELSE lift_slots(b)
LiftOffset(b) == IF b.cls \in LegendreBC THEN 0 ELSE b.N - lift_slots(b)

\* C24: with the functionals ordered (value at -1, value at +1, derivative
\* at -1, derivative at +1), lift function j of BCBasis (two functions, the
\* two values) and of BCBiharmonicBasis (four) gives 1 on functional j and 0
\* on the others; in the composite basis with the lift columns
\* (argument = 1) of ShenDirichletBasis and ShenBiharmonicBasis every
\* functional is 1 on its trailing column and 0 on all other columns, so a
\* trailing slot of a coefficient array is the boundary value of the
\* function; and the lift columns of ShenDirichletBasis._composite_basis,
\* the columns of BCBasis._composite_basis, BCBasis.sympy_basis and the lift
\* term of ShenDirichletBasis.eval have the same values at every point.
C24_LiftFunctionsCardinal ==
    /\ (/\ call.op = "evaluate_basis_derivative_all"
        /\ call.x = LiftEndpoints
        /\ basis.cls \in LegendreBC \/ call.argument = 1
        /\ call.k = 0 \/ LiftCount(basis) = 4) =>
          /\ ret.kind = "array"
          /\ \A p \in 1..2 : \A c \in 1..Len(ret.val[p]) :
                ret.val[p][c] = Delta(c, LiftOffset(basis) + p + 2 * call.k)
    /\ (/\ call.op = "evaluate_basis_derivative_all"
        /\ call.k = 0
        /\ \/ basis.cls = "legendre.BCBasis"
           \/ basis.cls = "legendre.ShenDirichletBasis" /\ call.argument = 1) =>
          \A i \in 1..2 : \A p \in 1..Len(call.x) :
              ret.val[p][LiftOffset(basis) + i] = BCBasis_sympy_basis(i - 1, call.x).val[p]
    /\ (call.op = "eval" /\ call.u # [j \in 1..basis.N |-> One]) =>
          \A i \in 1..2 :
              call.u[basis.N - 2 + i] = One =>
                  ret.val = BCBasis_sympy_basis(i - 1, call.x).val
    /\ (call.op = "sympy_basis" /\ call.x = LiftEndpoints /\ call.i < 2) =>
          \A p \in 1..2 : ret.val[p] = Delta(call.i + 1, p)

C24_Witness ==
    /\ call.op = "evaluate_basis_derivative_all"
    /\ basis.cls = "legendre.BCBiharmonicBasis"
    /\ call.x = LiftEndpoints
    /\ call.k = 1
    /\ ret.val[1][3] = One
    /\ ret.val[2][4] = One

=============================================================================
